---- MODULE Spec2Model ----
(***************************************************************************)
(* Verification model of streamforge's Bybit ingestion core: the timeframe *)
(* aggregation (processors/aggregate.py, processors/util.py), the general  *)
(* processor (processors/processor.py) and the WebSocket connector         *)
(* (ws/ws.py) with its normalizer (normalizers/).                          *)
(***************************************************************************)
EXTENDS Integers, Sequences, FiniteSets, TLC

VARIABLES
    timeframe,          \* AggregateTF.timeframe / DataInput.timeframe: the base timeframe
    aggregate_list,     \* DataInput.aggregate_list as the user wrote it
    target_timeframes,  \* AggregateTF.target_timeframes
    base_data,          \* BaseKlineBuffer.data of the base timeframe
    last_call,          \* the last operation applied to the aggregator and its result
    active_warmup,      \* RunnerConfig.active_warmup as the user set it
    wire,               \* what the exchange has done so far: frames, closes, timeouts
    pc,                 \* per connector: where run() / stream() stands
    conn,               \* per connector: connections opened so far (the last is current)
    ws_open,            \* per connector: connections whose transport is still open
    ping_tasks,         \* per connector: connections whose keepalive task is scheduled
    cursor,             \* per connector: entries of wire consumed
    processor,          \* per connector: the candle processor built by init_processors
    pending,            \* per connector: candles of the current frame not yet emitted
    processed,          \* per connector: every candle the processor has yielded
    emitted,            \* per connector: candles handed to the fanout / yielded to the caller
    sent,               \* per connector: the messages sent, each with the connection it went on
    frame,              \* the WebSocket message dict handed to the normalizer (mutable)
    ws_results,         \* what each BybitNormalizers.ws call on frame returned or raised
    utc_now,            \* datetime.now(timezone.utc).timestamp() of the REST calls
    utc_offset,         \* seconds the local timezone is ahead of UTC
    api,                \* per REST client: the BybitAPI / BinanceAPI instance
    rest_op,            \* per REST client: the operation it performs and its arguments
    rest_pc,            \* per REST client: where the operation stands
    urls,               \* per REST client: the request windows of the operation
    url_idx,            \* per REST client: position of the loop of fetch_historical_candles
    task,               \* per REST client and URL: the _fetch_data_with_limit call
    rest_out,           \* per REST client: rows returned / candles yielded to the caller
    limiter_acquired,   \* per limiter instance: tokens handed out so far
    data_input,         \* the DataInput given to BybitProcessor.init_processors
    processors_map,     \* BybitProcessor._processors_map: stream type -> class or instance
    proc_pc,            \* where the general processor stands: new, ready, raised
    proc_calls,         \* what each BybitProcessor.process_data call did
    custom_transformer, \* CSVEmitter._custom_transformer
    csv_file,           \* the file at CSVEmitter.file_path: whether it exists, its rows
    csv_log,            \* per row written: the record given to the emitter and the transformer then set
    emitter_holder,     \* BybitBackfilling._emitter_holder, a class attribute: the emitters added, in order
    emitters,           \* the emitter objects: their EMITTER and file_path
    registered_on,      \* per BybitBackfilling instance: the emitters its user registered on it
    deliveries          \* the emit_bulk calls the emitters received, in order

aggVars == <<timeframe, aggregate_list, target_timeframes, base_data, last_call>>

wsVars == <<active_warmup, wire, pc, conn, ws_open, ping_tasks, cursor,
            processor, pending, processed, emitted, sent>>

normVars == <<frame, ws_results>>

restVars == <<utc_now, utc_offset, api, rest_op, rest_pc, urls, url_idx, task,
              rest_out, limiter_acquired>>

procVars == <<data_input, processors_map, proc_pc, proc_calls>>

csvVars == <<custom_transformer, csv_file, csv_log>>

bfVars == <<emitter_holder, emitters, registered_on, deliveries>>

vars == <<timeframe, aggregate_list, target_timeframes, base_data, last_call,
          active_warmup, wire, pc, conn, ws_open, ping_tasks, cursor,
          processor, pending, processed, emitted, sent, frame, ws_results,
          utc_now, utc_offset, api, rest_op, rest_pc, urls, url_idx, task,
          rest_out, limiter_acquired,
          data_input, processors_map, proc_pc, proc_calls,
          custom_transformer, csv_file, csv_log,
          emitter_holder, emitters, registered_on, deliveries>>

----------------------------------------------------------------------------
(* Bounds of the model *)

MaxBuf == 4       \* bound of the base buffer (entries kept)
MaxSlot == 3      \* base periods after T0 that a candle may open at

(* An epoch second aligned to every timeframe up to 4h *)
T0 == 118055 * 14400

None == [kind |-> "None"]

----------------------------------------------------------------------------
(* Timeframe table *)

TIMEFRAME_TO_MINUTES_MAP ==
    [tf \in {"1m", "3m", "5m", "15m", "30m", "1h", "2h", "4h", "1d"} |->
        CASE tf = "1m" -> 1
          [] tf = "3m" -> 3
          [] tf = "5m" -> 5
          [] tf = "15m" -> 15
          [] tf = "30m" -> 30
          [] tf = "1h" -> 60
          [] tf = "2h" -> 120
          [] tf = "4h" -> 240
          [] tf = "1d" -> 1440]

get_timeframe_seconds(tf) ==
    IF tf \in DOMAIN TIMEFRAME_TO_MINUTES_MAP
    THEN TIMEFRAME_TO_MINUTES_MAP[tf] * 60
    ELSE 1 * 60

(* TIMEFRAME_CLASS_MAP: the timeframe classes with their offset (seconds). *)
TIMEFRAME_CLASS_MAP ==
    [tf \in {"1m", "3m", "5m", "15m", "30m", "1h", "2h", "4h", "1d"} |->
        [string_tf |-> tf,
         offset |-> CASE tf = "1m" -> 60
                      [] tf = "3m" -> 180
                      [] tf = "5m" -> 300
                      [] tf = "15m" -> 900
                      [] tf = "30m" -> 1800
                      [] tf = "1h" -> 3600
                      [] tf = "2h" -> 7200
                      [] tf = "4h" -> 14400
                      [] tf = "1d" -> 86400]]

Offset(tf) == TIMEFRAME_CLASS_MAP[tf].offset

----------------------------------------------------------------------------
(* Canonical candle (Kline) *)

(* Default of Kline.is_closed when the constructor is not given it *)
KlineDefaultIsClosed == TRUE

Kline(symbol, tf, open_ts, end_ts, o, h, l, c, v, q, is_closed, count) ==
    [kind |-> "Kline", source |-> "bybit", symbol |-> symbol, timeframe |-> tf,
     open_ts |-> open_ts, end_ts |-> end_ts,
     open |-> o, high |-> h, low |-> l, close |-> c,
     volume |-> v, quote_volume |-> q, is_closed |-> is_closed, count |-> count]

(* the high of the newer candle alone *)
MaxOfLast(a, b) == b

Max(a, b) == IF a >= b THEN a ELSE b
Min(a, b) == IF a <= b THEN a ELSE b

(* quote_volume is optional: NoQuote stands for Python's None *)
NoQuote == 0 - 1
QuoteOrZero(q) == IF q = NoQuote THEN 0 ELSE q

----------------------------------------------------------------------------
(* processors/util.py *)

adjust_timestamp(timestamp, offset) == (timestamp + 1) - offset

get_first_index_ge(data, target_ts) ==
    IF \E i \in 1..Len(data) : data[i].open_ts >= target_ts
    THEN CHOOSE i \in 1..Len(data) :
            /\ data[i].open_ts >= target_ts
            /\ \A j \in 1..(i - 1) : data[j].open_ts < target_ts
    ELSE 0

(* index (1-based) of the first entry whose open_ts is target_ts; 0 is None *)
get_first_index(data, target_ts) ==
    IF \E i \in 1..Len(data) : data[i].open_ts = target_ts
    THEN CHOOSE i \in 1..Len(data) :
            /\ data[i].open_ts = target_ts
            /\ \A j \in 1..(i - 1) : data[j].open_ts # target_ts
    ELSE 0

check_aggregation_setup(warmup_active, agg_list) ==
    IF agg_list # <<>>
    THEN (IF ~warmup_active THEN "WarmupConfigurationError" ELSE "True")
    ELSE "False"

----------------------------------------------------------------------------
(* processors/aggregate.py *)

(* the filter without the test tf_class > self.timeframe *)
_process_target_timeframes_NoGreater(base_tf, timeframes_list) ==
    SelectSeq(timeframes_list,
              LAMBDA tf : /\ tf \in DOMAIN TIMEFRAME_CLASS_MAP
                          /\ (Offset(tf) % Offset(base_tf)) = 0)

_process_target_timeframes(base_tf, timeframes_list) ==
    SelectSeq(timeframes_list,
              LAMBDA tf : /\ tf \in DOMAIN TIMEFRAME_CLASS_MAP
                          /\ (Offset(tf) % Offset(base_tf)) = 0
                          /\ Offset(tf) > Offset(base_tf))

(* the selection tested on the closing second itself *)
timeframes_to_aggregate_NoPlusOne(targets, timestamp) ==
    SelectSeq(targets, LAMBDA tf : (timestamp % Offset(tf)) = 0)

timeframes_to_aggregate(targets, timestamp) ==
    SelectSeq(targets, LAMBDA tf : ((timestamp + 1) % Offset(tf)) = 0)

(* the loop without the update of the close *)
RECURSIVE AggregateLoopKeepClose(_, _, _, _)
AggregateLoopKeepClose(data, i, ref_timestamp, candle_base) ==
    IF i > Len(data) THEN candle_base
    ELSE IF data[i].open_ts >= ref_timestamp THEN candle_base
    ELSE AggregateLoopKeepClose(data, i + 1, ref_timestamp,
            [candle_base EXCEPT
                !.high = Max(@, data[i].high),
                !.low = Min(@, data[i].low),
                !.volume = @ + data[i].volume,
                !.quote_volume = @ + QuoteOrZero(data[i].quote_volume),
                !.count = @ + 1])

RECURSIVE AggregateLoop(_, _, _, _)
AggregateLoop(data, i, ref_timestamp, candle_base) ==
    IF i > Len(data) THEN candle_base
    ELSE IF data[i].open_ts >= ref_timestamp THEN candle_base
    ELSE AggregateLoop(data, i + 1, ref_timestamp,
            [candle_base EXCEPT
                !.high = Max(@, data[i].high),
                !.low = Min(@, data[i].low),
                !.volume = @ + data[i].volume,
                !.quote_volume = @ + QuoteOrZero(data[i].quote_volume),
                !.close = data[i].close,
                !.count = @ + 1])

aggregate(data, symbol, tf, ref_timestamp) ==
    LET target_ts == adjust_timestamp(ref_timestamp, Offset(tf))
        first_index == get_first_index(data, target_ts)
    IN  IF first_index = 0 THEN None
        ELSE LET first_data == data[first_index]
             IN AggregateLoop(data, first_index + 1, ref_timestamp,
                    Kline(symbol, tf, target_ts, ref_timestamp,
                          first_data.open, first_data.high, first_data.low,
                          first_data.close, first_data.volume,
                          QuoteOrZero(first_data.quote_volume),
                          KlineDefaultIsClosed, 1))

----------------------------------------------------------------------------
(* Candle processor: buffer update, emission gate, aggregation on trigger *)

BufferUpdate(data, candle, max_len) ==
    IF Len(data) > 0 /\ data[Len(data)].open_ts = candle.open_ts
    THEN [data EXCEPT ![Len(data)] = candle]
    ELSE LET appended == Append(data, candle)
         IN IF Len(appended) > max_len THEN Tail(appended) ELSE appended

RECURSIVE AggregateAll(_, _, _, _)
AggregateAll(data, symbol, tfs, ref_timestamp) ==
    IF tfs = <<>> THEN <<>>
    ELSE LET agg == aggregate(data, symbol, Head(tfs), ref_timestamp)
             rest == AggregateAll(data, symbol, Tail(tfs), ref_timestamp)
         IN IF agg = None THEN rest ELSE <<agg>> \o rest

CandleProcess(data, candle, targets, emit_only_closed, max_len) ==
    LET updated == BufferUpdate(data, candle, max_len)
        base_out == IF (~emit_only_closed) \/ candle.is_closed
                    THEN <<candle>> ELSE <<>>
        aggs == AggregateAll(updated, candle.symbol,
                             timeframes_to_aggregate(targets, candle.end_ts),
                             candle.end_ts)
    IN [data |-> updated, out |-> base_out \o aggs]

----------------------------------------------------------------------------
(* Inputs of the aggregation specification *)

BaseTimeframe == "1h"
TargetPool == {"2h", "4h"}
MaxTargets == 2

Symbol == "BTCUSDT"

SeqsNoRep(S, n) ==
    UNION {{f \in [1..k -> S] : \A i, j \in 1..k : i # j => f[i] # f[j]} : k \in 0..n}

AggregateLists == SeqsNoRep(TargetPool, MaxTargets)

Shapes ==
    {[open |-> 2, high |-> 4, low |-> 1, close |-> 3, volume |-> 1, quote_volume |-> NoQuote],
     [open |-> 5, high |-> 6, low |-> 2, close |-> 4, volume |-> 2, quote_volume |-> 7]}

SlotOpen(tf, k) == T0 + k * Offset(tf)
SlotEnd(tf, k) == SlotOpen(tf, k) + Offset(tf) - 1

BaseCandle(tf, k, shape, is_closed) ==
    Kline(Symbol, tf, SlotOpen(tf, k), SlotEnd(tf, k),
          shape.open, shape.high, shape.low, shape.close,
          shape.volume, shape.quote_volume, is_closed, 1)

----------------------------------------------------------------------------
(* normalizers/util.py: timestamps on the wire are integers too wide for   *)
(* machine arithmetic here; WireInt(hi, lo, scale) is hi * 10^scale + lo   *)
(* with 0 <= lo < 10^scale.                                                *)

WireInt(hi, lo, scale) == [hi |-> hi, lo |-> lo, scale |-> scale]

RECURSIVE Pow10(_)
Pow10(k) == IF k = 0 THEN 1 ELSE 10 * Pow10(k - 1)

RECURSIVE Digits(_)
Digits(n) == IF n < 10 THEN 1 ELSE 1 + Digits(n \div 10)

(* len(str(timestamp)) *)
DigitCount(w) == IF w.hi = 0 THEN Digits(w.lo) ELSE Digits(w.hi) + w.scale

(* the detection with every timestamp longer than seconds taken as microseconds *)
get_timestamp_precision_AllMicro(w) ==
    LET digit_count == DigitCount(w)
    IN IF digit_count = 10 THEN 0
       ELSE IF digit_count >= 13 THEN 6
       ELSE 0

(* the divisor as a power of ten: 0 is 1, 3 is 1000, 6 is 1000000 *)
get_timestamp_precision(w) ==
    LET digit_count == DigitCount(w)
    IN IF digit_count = 10 THEN 0
       ELSE IF digit_count = 13 THEN 3
       ELSE IF digit_count = 16 THEN 6
       ELSE IF digit_count >= 16 THEN 6
       ELSE IF digit_count >= 13 THEN 3
       ELSE 0

(* int(w) // 10^k *)
WireFloorDiv(w, k) ==
    IF k >= w.scale
    THEN w.hi \div Pow10(k - w.scale)
    ELSE w.hi * Pow10(w.scale - k) + (w.lo \div Pow10(k))

adjust_bybit_timestamps(kline_obj) ==
    IF ~kline_obj.has_start \/ ~kline_obj.has_timestamp
    THEN [status |-> "raise"]
    ELSE LET precision == get_timestamp_precision(kline_obj.start)
         IN [status |-> "ok",
             start |-> WireFloorDiv(kline_obj.start, precision),
             end |-> WireFloorDiv(kline_obj.end, precision)]

----------------------------------------------------------------------------
(* util.py, normalizers/ohlc.py, normalizers/normalizer.py *)

BYBIT_TO_TIMEFRAME_MAP ==
    [iv \in {"1", "3", "5", "15", "30", "60", "120", "240", "D", "W", "M"} |->
        CASE iv = "1" -> "1m"
          [] iv = "3" -> "3m"
          [] iv = "5" -> "5m"
          [] iv = "15" -> "15m"
          [] iv = "30" -> "30m"
          [] iv = "60" -> "1h"
          [] iv = "120" -> "2h"
          [] iv = "240" -> "4h"
          [] iv = "D" -> "1d"
          [] iv = "W" -> "1w"
          [] iv = "M" -> "1M"]

get_streamforge_timeframe(bybit_timeframe) ==
    IF bybit_timeframe \in DOMAIN BYBIT_TO_TIMEFRAME_MAP
    THEN BYBIT_TO_TIMEFRAME_MAP[bybit_timeframe]
    ELSE bybit_timeframe

(* "kline" in topic, the topic being kept as its dot-separated parts *)
TopicHasKline(topic) == \E i \in 1..Len(topic) : topic[i] = "kline"

(* KlineNormalizer.ws without the guard of line 102 *)
KlineNormalizer_ws_NoGuard(data) ==
    IF ~data.has_data \/ data.data = <<>> \/ Len(data.topic) < 3
    THEN [status |-> "raise"]
    ELSE LET kline_obj == data.data[1]
             adjusted == adjust_bybit_timestamps(kline_obj)
         IN IF adjusted.status = "raise"
            THEN [status |-> "raise"]
            ELSE [status |-> "ok",
                  kline |-> Kline(data.topic[3],
                                  get_streamforge_timeframe(data.topic[2]),
                                  adjusted.start, adjusted.end,
                                  kline_obj.open, kline_obj.high, kline_obj.low,
                                  kline_obj.close, kline_obj.volume,
                                  kline_obj.turnover, kline_obj.confirm, 1)]

KlineNormalizer_ws(data) ==
    IF ~data.has_data \/ data.data = <<>>
    THEN [status |-> "none"]
    ELSE IF Len(data.topic) < 3
    THEN [status |-> "raise"]
    ELSE LET kline_obj == data.data[1]
             adjusted == adjust_bybit_timestamps(kline_obj)
         IN IF adjusted.status = "raise"
            THEN [status |-> "raise"]
            ELSE [status |-> "ok",
                  kline |-> Kline(data.topic[3],
                                  get_streamforge_timeframe(data.topic[2]),
                                  adjusted.start, adjusted.end,
                                  kline_obj.open, kline_obj.high, kline_obj.low,
                                  kline_obj.close, kline_obj.volume,
                                  kline_obj.turnover, kline_obj.confirm, 1)]

BybitNormalizers_ws(data) ==
    IF TopicHasKline(data.topic)
    THEN KlineNormalizer_ws(data)
    ELSE [status |-> "none"]

(* The normalizer works on the caller's dict in place.  The three operators  *)
(* below give the dict as the call leaves it, whether it returns or raises.  *)

(* util.py lines 53-57: start and end become ints of seconds, then the       *)
(* "timestamp" key is popped; a missing key raises after the earlier writes  *)
adjust_bybit_timestamps_effect(kline_obj) ==
    IF ~kline_obj.has_start
    THEN kline_obj
    ELSE LET precision == get_timestamp_precision(kline_obj.start)
         IN [kline_obj EXCEPT
                !.start = WireInt(WireFloorDiv(kline_obj.start, precision), 0, 0),
                !.end = WireInt(WireFloorDiv(kline_obj.end, precision), 0, 0),
                !.has_timestamp = FALSE]

(* ohlc.py lines 109-115: "source" is written before topic_parts[2] is read *)
KlineNormalizer_ws_effect(data) ==
    IF ~data.has_data \/ data.data = <<>>
    THEN data
    ELSE IF Len(data.topic) < 3
    THEN [data EXCEPT !.data[1] = [source |-> "bybit"] @@ @]
    ELSE [data EXCEPT !.data[1] =
            adjust_bybit_timestamps_effect(
                [source |-> "bybit", s |-> data.topic[3],
                 i |-> get_streamforge_timeframe(data.topic[2])] @@ @)]

BybitNormalizers_ws_effect(data) ==
    IF TopicHasKline(data.topic)
    THEN KlineNormalizer_ws_effect(data)
    ELSE data

----------------------------------------------------------------------------
(* Inputs of the connector specification *)

MaxEvents == 3        \* entries of wire
MaxLiveSlots == 2     \* base periods the live stream covers

Modes == {"run", "stream"}

(* the warmup loader seeds the completed base candles of the running bucket of *)
(* the largest target; the live stream starts with the last candle of the bucket *)
FirstLiveSlot == (Offset("4h") \div Offset(BaseTimeframe)) - 1
WarmupCandles ==
    [k \in 1..FirstLiveSlot |->
        BaseCandle(BaseTimeframe, k - 1,
                   [open |-> 2, high |-> 4, low |-> 1, close |-> 3,
                    volume |-> 1, quote_volume |-> 0], TRUE)]

WsAggregateLists == {<<>>, <<"2h", "4h">>}

(* BybitProcessor.__init__ default, the only value BybitWS ever passes *)
emit_only_closed_candles == TRUE

KlineObj(k, confirm, has_timestamp) ==
    [start |-> WireInt(SlotOpen(BaseTimeframe, k), 0, 3),
     end |-> WireInt(SlotEnd(BaseTimeframe, k), 999, 3),
     has_start |-> TRUE, has_timestamp |-> has_timestamp,
     open |-> 2, high |-> IF confirm THEN 6 ELSE 4, low |-> 1,
     close |-> IF confirm THEN 5 ELSE 3,
     volume |-> IF confirm THEN 2 ELSE 1, turnover |-> IF confirm THEN 7 ELSE 3,
     confirm |-> confirm]

KlineFrame(k, confirm, has_timestamp) ==
    [op |-> "", success |-> FALSE, topic |-> <<"kline", "60", Symbol>>,
     has_data |-> TRUE, data |-> <<KlineObj(k, confirm, has_timestamp)>>]

AckFrame ==
    [op |-> "subscribe", success |-> TRUE, topic |-> <<>>, has_data |-> FALSE, data |-> <<>>]

TickerFrame ==
    [op |-> "", success |-> FALSE, topic |-> <<"tickers", Symbol>>,
     has_data |-> TRUE, data |-> <<KlineObj(FirstLiveSlot, FALSE, TRUE)>>]

LiveSlots == FirstLiveSlot..(FirstLiveSlot + MaxLiveSlots - 1)

WsFrames ==
    {AckFrame, TickerFrame, KlineFrame(FirstLiveSlot, TRUE, FALSE)}
    \cup {KlineFrame(k, confirm, TRUE) : k \in LiveSlots, confirm \in BOOLEAN}

WsEvents ==
    {[type |-> "frame", frame |-> f] : f \in WsFrames}
    \cup {[type |-> "close"], [type |-> "timeout"]}

(* frames that carry no kline data *)
AckFailedFrame ==
    [op |-> "subscribe", success |-> FALSE, topic |-> <<>>, has_data |-> FALSE, data |-> <<>>]

PongFrame ==
    [op |-> "pong", success |-> FALSE, topic |-> <<>>, has_data |-> FALSE, data |-> <<>>]

(* the spot endpoint answers a ping with op "ping" and ret_msg "pong" *)
HeartbeatFrame ==
    [op |-> "ping", success |-> TRUE, topic |-> <<>>, has_data |-> FALSE, data |-> <<>>]

KlineNoDataFrame ==
    [op |-> "", success |-> FALSE, topic |-> <<"kline", "60", Symbol>>,
     has_data |-> FALSE, data |-> <<>>]

KlineEmptyDataFrame ==
    [op |-> "", success |-> FALSE, topic |-> <<"kline", "60", Symbol>>,
     has_data |-> TRUE, data |-> <<>>]

NonDataFrames ==
    {AckFrame, AckFailedFrame, PongFrame, HeartbeatFrame, TickerFrame,
     KlineNoDataFrame, KlineEmptyDataFrame}

DropFrames == NonDataFrames \cup {KlineFrame(FirstLiveSlot, TRUE, TRUE)}

----------------------------------------------------------------------------
(* processors/processor.py *)

(* the warmup_active that init_processors passes to the candle processor *)
init_processors(data_input_aggregate_list) == data_input_aggregate_list # <<>>

(* BybitProcessor.process_data: the candles yielded for one normalized frame *)
BybitProcessor_process_data(proc, data, raw_data) ==
    IF raw_data.topic = <<>>
    THEN [status |-> "ok", data |-> proc.data, out |-> <<>>]
    ELSE IF TopicHasKline(raw_data.topic)
    THEN LET res == CandleProcess(proc.data, data, proc.targets,
                                  emit_only_closed_candles, MaxBuf)
         IN [status |-> "ok", data |-> res.data, out |-> res.out]
    ELSE [status |-> "raise", data |-> proc.data, out |-> <<>>]

(* bybit_processors_map: every stream type is bound to the class *)
BybitCandleProcessorClass == [kind |-> "class", name |-> "BybitCandleProcessor"]

(* a processors map that has no entry for "kline" *)
bybit_processors_map_NoKline ==
    [t \in {"candle", "ohlc", "ohlcv"} |-> BybitCandleProcessorClass]

bybit_processors_map ==
    [t \in {"candle", "kline", "ohlc", "ohlcv"} |-> BybitCandleProcessorClass]

(* BybitCandleProcessor(stream_input=..., warmup_active=..., ...) *)
BybitCandleProcessor(stream_input, warmup_active) ==
    [kind |-> "instance", name |-> "BybitCandleProcessor",
     stream_input |-> stream_input, warmup_active |-> warmup_active]

(* BybitProcessor.init_processors: the entry of data_input.type alone is *)
(* replaced by an instance                                               *)
BybitProcessor_init_processors(map, input) ==
    IF input.type \in DOMAIN map
    THEN [status |-> "ok",
          map |-> [map EXCEPT ![input.type] =
                    BybitCandleProcessor(input, init_processors(input.aggregate_list))]]
    ELSE [status |-> "NotImplementedError", map |-> map]

(* BybitProcessor.process_data lines 72-91: the entry the frame is routed to. *)
(* process_data called on the class itself has no self: TypeError.            *)
BybitProcessor_route(map, raw_data) ==
    IF raw_data.topic = <<>>
    THEN [status |-> "return", processor |-> None]
    ELSE IF TopicHasKline(raw_data.topic)
    THEN IF "kline" \in DOMAIN map
         THEN [status |-> IF map["kline"].kind = "instance" THEN "ok" ELSE "TypeError",
               processor |-> map["kline"]]
         ELSE [status |-> "NotImplementedError", processor |-> None]
    ELSE [status |-> "NotImplementedError", processor |-> None]

----------------------------------------------------------------------------
(* util.py: timeframe strings of the package and Bybit's intervals *)

TIMEFRAME_TO_BYBIT_MAP ==
    [tf \in {"1m", "3m", "5m", "15m", "30m", "1h", "2h", "4h", "1d", "1w", "1M"} |->
        CASE tf = "1m" -> "1"
          [] tf = "3m" -> "3"
          [] tf = "5m" -> "5"
          [] tf = "15m" -> "15"
          [] tf = "30m" -> "30"
          [] tf = "1h" -> "60"
          [] tf = "2h" -> "120"
          [] tf = "4h" -> "240"
          [] tf = "1d" -> "D"
          [] tf = "1w" -> "W"
          [] tf = "1M" -> "M"]

(* str.lower() on timeframe strings: only "1M" has an upper-case letter *)
Lower(str) == IF str = "1M" THEN "1m" ELSE str

get_bybit_timeframe(streamforge_timeframe) ==
    IF Lower(streamforge_timeframe) \in DOMAIN TIMEFRAME_TO_BYBIT_MAP
    THEN TIMEFRAME_TO_BYBIT_MAP[Lower(streamforge_timeframe)]
    ELSE streamforge_timeframe

(* str.upper() on the symbols and market types used here *)
Upper(str) ==
    CASE str = "ethusdt" -> "ETHUSDT"
      [] str = "linear" -> "LINEAR"
      [] str = "spot" -> "SPOT"
      [] OTHER -> str

(* ws/util.py: the topics in the order the loop leaves them, reversed *)
build_subscription_args_Reversed(stream_input) ==
    LET bybit_interval == get_bybit_timeframe(stream_input.timeframe)
        n == Len(stream_input.symbols)
    IN [i \in 1..n |-> <<"kline", bybit_interval, Upper(stream_input.symbols[n + 1 - i])>>]

(* ws/util.py build_subscription_args: one topic "kline.{interval}.{SYMBOL}" *)
(* per symbol, in the order of stream_input.symbols; a topic is kept as its   *)
(* dot-separated parts                                                         *)
build_subscription_args(stream_input) ==
    LET bybit_interval == get_bybit_timeframe(stream_input.timeframe)
    IN [i \in 1..Len(stream_input.symbols) |->
            <<"kline", bybit_interval, Upper(stream_input.symbols[i])>>]

(* WebsocketParameters.build_params *)
build_params(ws_input) == [op |-> "subscribe", args |-> build_subscription_args(ws_input)]

(* the DataInput of the connector: two symbols on the base timeframe *)
WsSymbols == <<"BTCUSDT", "ethusdt">>
WsInput(tf) == [type |-> "kline", symbols |-> WsSymbols, timeframe |-> tf]

----------------------------------------------------------------------------
(* ws/ws.py: BybitWS.run and BybitWS.stream *)

Terminal == {"config_error", "raised", "cancelled"}

NextEvent(m) == wire[cursor[m] + 1]

(* handlers that reconnect and leave the keepalive task running *)
Except_KeepPing(m, exc, in_try) ==
    IF m = "run"
    THEN IF in_try /\ exc \in {"ConnectionClosed", "TimeoutError"}
         THEN [pc |-> "connecting", cancel_ping |-> FALSE, close_ws |-> TRUE]
         ELSE [pc |-> "raised", cancel_ping |-> in_try, close_ws |-> FALSE]
    ELSE [pc |-> "backoff", cancel_ping |-> FALSE, close_ws |-> FALSE]

(* run(): lines 192-211, and the subscription send of line 166 outside the try. *)
(* stream(): lines 256-275, everything inside the try.                         *)
(* exc is "ConnectionClosed", "TimeoutError" or "Exception".                    *)
Except(m, exc, in_try) ==
    IF m = "run"
    THEN IF in_try /\ exc \in {"ConnectionClosed", "TimeoutError"}
         THEN [pc |-> "connecting", cancel_ping |-> TRUE, close_ws |-> TRUE]
         ELSE [pc |-> "raised", cancel_ping |-> in_try, close_ws |-> FALSE]
    ELSE [pc |-> "backoff", cancel_ping |-> TRUE, close_ws |-> FALSE]

Raise(m, exc, in_try, peer_closed) ==
    LET h == Except(m, exc, in_try)
    IN /\ pc' = [pc EXCEPT ![m] = h.pc]
       /\ ping_tasks' = [ping_tasks EXCEPT
                            ![m] = IF h.cancel_ping THEN @ \ {conn[m]} ELSE @]
       /\ ws_open' = [ws_open EXCEPT
                            ![m] = IF h.close_ws \/ peer_closed THEN @ \ {conn[m]} ELSE @]

(* Runner._init_run: build the connector and its processor, load the warmup *)
Start(m) ==
    /\ pc[m] = "init"
    /\ LET warmup_active == init_processors(aggregate_list)
           setup == check_aggregation_setup(warmup_active, aggregate_list)
       IN IF setup = "WarmupConfigurationError"
          THEN /\ pc' = [pc EXCEPT ![m] = "config_error"]
               /\ UNCHANGED processor
          ELSE /\ pc' = [pc EXCEPT ![m] = "connecting"]
               /\ processor' = [processor EXCEPT ![m] =
                    [warmup_active |-> warmup_active,
                     targets |-> IF setup = "True"
                                 THEN _process_target_timeframes(timeframe, aggregate_list)
                                 ELSE <<>>,
                     data |-> IF warmup_active THEN WarmupCandles ELSE <<>>]]
    /\ UNCHANGED <<active_warmup, sent, wire, conn, ws_open, ping_tasks, cursor,
                   pending, processed, emitted>>
    /\ UNCHANGED <<aggVars, normVars, restVars, procVars, csvVars, bfVars>>

(* websockets.connect yields a connection; the keepalive task is created *)
Connect(m) ==
    /\ pc[m] = "connecting"
    /\ conn' = [conn EXCEPT ![m] = @ + 1]
    /\ ws_open' = [ws_open EXCEPT ![m] = @ \cup {conn[m] + 1}]
    /\ ping_tasks' = [ping_tasks EXCEPT ![m] = @ \cup {conn[m] + 1}]
    /\ pc' = [pc EXCEPT ![m] = "subscribing"]
    /\ UNCHANGED <<active_warmup, sent, wire, cursor, processor, pending, processed, emitted>>
    /\ UNCHANGED <<aggVars, normVars, restVars, procVars, csvVars, bfVars>>

(* await websocket.send(subscription): it fails iff the transport closes first *)
SubscribeSent(m) ==
    /\ pc[m] = "subscribing"
    /\ cursor[m] < Len(wire)
    /\ NextEvent(m).type # "close"
    /\ pc' = [pc EXCEPT ![m] = "recv"]
    /\ LET params == build_params(WsInput(timeframe))
       IN sent' = [sent EXCEPT ![m] = Append(@, [conn |-> conn[m], message |-> params])]
    /\ UNCHANGED <<active_warmup, wire, conn, ws_open, ping_tasks, cursor,
                   processor, pending, processed, emitted>>
    /\ UNCHANGED <<aggVars, normVars, restVars, procVars, csvVars, bfVars>>

SubscribeClosed(m) ==
    /\ pc[m] = "subscribing"
    /\ cursor[m] < Len(wire)
    /\ NextEvent(m).type = "close"
    /\ cursor' = [cursor EXCEPT ![m] = @ + 1]
    /\ Raise(m, "ConnectionClosed", m = "stream", TRUE)
    /\ UNCHANGED <<active_warmup, sent, wire, conn, processor, pending, processed, emitted>>
    /\ UNCHANGED <<aggVars, normVars, restVars, procVars, csvVars, bfVars>>

(* await websocket.recv() raises ConnectionClosed *)
RecvClosed(m) ==
    /\ pc[m] = "recv"
    /\ cursor[m] < Len(wire)
    /\ NextEvent(m).type = "close"
    /\ cursor' = [cursor EXCEPT ![m] = @ + 1]
    /\ Raise(m, "ConnectionClosed", TRUE, TRUE)
    /\ UNCHANGED <<active_warmup, sent, wire, conn, processor, pending, processed, emitted>>
    /\ UNCHANGED <<aggVars, normVars, restVars, procVars, csvVars, bfVars>>

(* asyncio.TimeoutError in the receive loop *)
RecvTimeout(m) ==
    /\ pc[m] = "recv"
    /\ cursor[m] < Len(wire)
    /\ NextEvent(m).type = "timeout"
    /\ cursor' = [cursor EXCEPT ![m] = @ + 1]
    /\ Raise(m, "TimeoutError", TRUE, FALSE)
    /\ UNCHANGED <<active_warmup, sent, wire, conn, processor, pending, processed, emitted>>
    /\ UNCHANGED <<aggVars, normVars, restVars, procVars, csvVars, bfVars>>

IsControl(data) == data.op = "subscribe" \/ data.op = "pong"

(* subscription confirmations and pongs: continue *)
RecvControl(m) ==
    /\ pc[m] = "recv"
    /\ cursor[m] < Len(wire)
    /\ NextEvent(m).type = "frame"
    /\ IsControl(NextEvent(m).frame)
    /\ cursor' = [cursor EXCEPT ![m] = @ + 1]
    /\ UNCHANGED <<active_warmup, sent, wire, pc, conn, ws_open, ping_tasks,
                   processor, pending, processed, emitted>>
    /\ UNCHANGED <<aggVars, normVars, restVars, procVars, csvVars, bfVars>>

(* normalized_data is None: continue *)
RecvNone(m) ==
    /\ pc[m] = "recv"
    /\ cursor[m] < Len(wire)
    /\ NextEvent(m).type = "frame"
    /\ ~IsControl(NextEvent(m).frame)
    /\ BybitNormalizers_ws(NextEvent(m).frame).status = "none"
    /\ cursor' = [cursor EXCEPT ![m] = @ + 1]
    /\ UNCHANGED <<active_warmup, sent, wire, pc, conn, ws_open, ping_tasks,
                   processor, pending, processed, emitted>>
    /\ UNCHANGED <<aggVars, normVars, restVars, procVars, csvVars, bfVars>>

(* the normalizer raises on the frame *)
RecvRaise(m) ==
    /\ pc[m] = "recv"
    /\ cursor[m] < Len(wire)
    /\ NextEvent(m).type = "frame"
    /\ ~IsControl(NextEvent(m).frame)
    /\ BybitNormalizers_ws(NextEvent(m).frame).status = "raise"
    /\ cursor' = [cursor EXCEPT ![m] = @ + 1]
    /\ Raise(m, "Exception", TRUE, FALSE)
    /\ UNCHANGED <<active_warmup, sent, wire, conn, processor, pending, processed, emitted>>
    /\ UNCHANGED <<aggVars, normVars, restVars, procVars, csvVars, bfVars>>

(* a candle: the processor updates its buffer and yields the candles to emit *)
RecvData(m) ==
    /\ pc[m] = "recv"
    /\ cursor[m] < Len(wire)
    /\ NextEvent(m).type = "frame"
    /\ ~IsControl(NextEvent(m).frame)
    /\ LET normalized_data == BybitNormalizers_ws(NextEvent(m).frame)
       IN /\ normalized_data.status = "ok"
          /\ LET res == BybitProcessor_process_data(processor[m], normalized_data.kline,
                                                    NextEvent(m).frame)
             IN /\ res.status = "ok"
                /\ processor' = [processor EXCEPT ![m].data = res.data]
                /\ pending' = [pending EXCEPT ![m] = res.out]
                /\ processed' = [processed EXCEPT ![m] = @ \o res.out]
                /\ pc' = [pc EXCEPT ![m] = IF res.out = <<>> THEN "recv" ELSE "emit"]
    /\ cursor' = [cursor EXCEPT ![m] = @ + 1]
    /\ UNCHANGED <<active_warmup, sent, wire, conn, ws_open, ping_tasks, emitted>>
    /\ UNCHANGED <<aggVars, normVars, restVars, procVars, csvVars, bfVars>>

(* the emission dispatched without being awaited: any pending candle may land first *)
EmitNotAwaited(m) ==
    /\ pc[m] = "emit"
    /\ \E i \in 1..Len(pending[m]) :
          /\ emitted' = [emitted EXCEPT ![m] = Append(@, pending[m][i])]
          /\ pending' = [pending EXCEPT ![m] =
                            SubSeq(@, 1, i - 1) \o SubSeq(@, i + 1, Len(@))]
          /\ pc' = [pc EXCEPT ![m] = IF Len(pending[m]) = 1 THEN "recv" ELSE "emit"]
    /\ UNCHANGED <<active_warmup, sent, wire, conn, ws_open, ping_tasks, cursor,
                   processor, processed>>
    /\ UNCHANGED <<aggVars, normVars, restVars, procVars, csvVars, bfVars>>

(* run(): await self.emitter_holder.emit(processed); stream(): yield processed *)
Emit(m) ==
    /\ pc[m] = "emit"
    /\ emitted' = [emitted EXCEPT ![m] = Append(@, Head(pending[m]))]
    /\ pending' = [pending EXCEPT ![m] = Tail(@)]
    /\ pc' = [pc EXCEPT ![m] = IF Tail(pending[m]) = <<>> THEN "recv" ELSE "emit"]
    /\ UNCHANGED <<active_warmup, sent, wire, conn, ws_open, ping_tasks, cursor,
                   processor, processed>>
    /\ UNCHANGED <<aggVars, normVars, restVars, procVars, csvVars, bfVars>>

(* stream(): await asyncio.sleep(self._sleep_time), then the reconnect loop *)
Backoff(m) ==
    /\ pc[m] = "backoff"
    /\ pc' = [pc EXCEPT ![m] = "connecting"]
    /\ UNCHANGED <<active_warmup, sent, wire, conn, ws_open, ping_tasks, cursor,
                   processor, pending, processed, emitted>>
    /\ UNCHANGED <<aggVars, normVars, restVars, procVars, csvVars, bfVars>>

(* the owner cancels the task, or the consumer closes the stream generator: *)
(* CancelledError / GeneratorExit are not Exceptions, no handler runs       *)
Cancel(m) ==
    /\ pc[m] \in {"connecting", "subscribing", "recv", "emit", "backoff"}
    /\ pc' = [pc EXCEPT ![m] = "cancelled"]
    /\ UNCHANGED <<active_warmup, sent, wire, conn, ws_open, ping_tasks, cursor,
                   processor, pending, processed, emitted>>
    /\ UNCHANGED <<aggVars, normVars, restVars, procVars, csvVars, bfVars>>

(* the abandoned websockets.connect iterator is finalized: its transport closes *)
Finalize(m, c) ==
    /\ c \in ws_open[m]
    /\ c < conn[m] \/ pc[m] \in {"raised", "cancelled", "backoff", "connecting"}
    /\ ws_open' = [ws_open EXCEPT ![m] = @ \ {c}]
    /\ UNCHANGED <<active_warmup, sent, wire, pc, conn, ping_tasks, cursor,
                   processor, pending, processed, emitted>>
    /\ UNCHANGED <<aggVars, normVars, restVars, procVars, csvVars, bfVars>>

(* _handle_ping_pong: the send on a closed transport raises, the loop breaks *)
PingExit(m, c) ==
    /\ c \in ping_tasks[m]
    /\ c \notin ws_open[m]
    /\ ping_tasks' = [ping_tasks EXCEPT ![m] = @ \ {c}]
    /\ UNCHANGED <<active_warmup, sent, wire, pc, conn, ws_open, cursor,
                   processor, pending, processed, emitted>>
    /\ UNCHANGED <<aggVars, normVars, restVars, procVars, csvVars, bfVars>>

Blocked(m) ==
    \/ pc[m] \in Terminal
    \/ pc[m] \in {"subscribing", "recv"} /\ cursor[m] = Len(wire)

(* the exchange: the next frame, close or timeout of the current connection *)
Deliver(e) ==
    /\ Len(wire) < MaxEvents
    /\ \A m \in DOMAIN pc : Blocked(m)
    /\ \E m \in DOMAIN pc : pc[m] \notin Terminal
    /\ wire' = Append(wire, e)
    /\ UNCHANGED <<active_warmup, sent, pc, conn, ws_open, ping_tasks, cursor,
                   processor, pending, processed, emitted>>
    /\ UNCHANGED <<aggVars, normVars, restVars, procVars, csvVars, bfVars>>

NoProcessor == [warmup_active |-> FALSE, targets |-> <<>>, data |-> <<>>]

(* no frame is being normalized outside the connector *)
InitNoFrame ==
    /\ frame = None
    /\ ws_results = <<>>

(* no REST client exists *)
InitRestClients(K) ==
    /\ rest_pc = [c \in K |-> "init"]
    /\ urls = [c \in K |-> <<>>]
    /\ url_idx = [c \in K |-> 0]
    /\ task = [c \in K |-> <<>>]
    /\ rest_out = [c \in K |-> <<>>]

(* no general processor exists on its own *)
InitNoProc ==
    /\ data_input = None
    /\ processors_map = << >>
    /\ proc_pc = "none"
    /\ proc_calls = <<>>

(* no CSV emitter exists *)
InitNoCsv ==
    /\ custom_transformer = None
    /\ csv_file = [exists |-> FALSE, header |-> <<>>, rows |-> <<>>]
    /\ csv_log = <<>>

(* no BybitBackfilling instance exists *)
InitNoBackfill ==
    /\ emitter_holder = <<>>
    /\ emitters = << >>
    /\ registered_on = << >>
    /\ deliveries = <<>>

InitNoRest ==
    /\ utc_now = 0
    /\ utc_offset = 0
    /\ api = << >>
    /\ rest_op = << >>
    /\ limiter_acquired = << >>
    /\ InitRestClients({})

InitWsVars(M) ==
    /\ wire = <<>>
    /\ pc = [m \in M |-> "init"]
    /\ conn = [m \in M |-> 0]
    /\ ws_open = [m \in M |-> {}]
    /\ ping_tasks = [m \in M |-> {}]
    /\ cursor = [m \in M |-> 0]
    /\ processor = [m \in M |-> NoProcessor]
    /\ pending = [m \in M |-> <<>>]
    /\ processed = [m \in M |-> <<>>]
    /\ emitted = [m \in M |-> <<>>]
    /\ sent = [m \in M |-> <<>>]

InitConnectors(M) ==
    /\ InitNoFrame
    /\ InitNoRest
    /\ InitNoProc
    /\ InitNoCsv
    /\ InitNoBackfill
    /\ InitWsVars(M)

(* no connector and no aggregator exist *)
InitNoConnector ==
    /\ active_warmup = TRUE
    /\ InitWsVars({})

InitNoAgg ==
    /\ timeframe = BaseTimeframe
    /\ aggregate_list = <<>>
    /\ target_timeframes = <<>>
    /\ base_data = <<>>
    /\ last_call = [op |-> "none"]

InitInput ==
    /\ timeframe = BaseTimeframe
    /\ aggregate_list \in WsAggregateLists
    /\ target_timeframes = _process_target_timeframes(timeframe, aggregate_list)
    /\ base_data = <<>>
    /\ last_call = [op |-> "none"]
    /\ active_warmup \in BOOLEAN

(* one connector, driven by run() or by stream() *)
InitWS ==
    /\ InitInput
    /\ \E m \in Modes : InitConnectors({m})

(* two connectors on the same input and the same wire, one driven by run(), *)
(* the other by stream()                                                    *)
InitPair ==
    /\ InitInput
    /\ InitConnectors(Modes)

Connectors == DOMAIN pc

NextPair ==
    \/ \E m \in Connectors : Start(m)
    \/ \E m \in Connectors : Connect(m)
    \/ \E m \in Connectors : SubscribeSent(m)
    \/ \E m \in Connectors : SubscribeClosed(m)
    \/ \E m \in Connectors : RecvClosed(m)
    \/ \E m \in Connectors : RecvTimeout(m)
    \/ \E m \in Connectors : RecvControl(m)
    \/ \E m \in Connectors : RecvNone(m)
    \/ \E m \in Connectors : RecvRaise(m)
    \/ \E m \in Connectors : RecvData(m)
    \/ \E m \in Connectors : Emit(m)
    \/ \E m \in Connectors : Backoff(m)
    \/ \E m \in Connectors, c \in 1..(MaxEvents + 1) : Finalize(m, c)
    \/ \E m \in Connectors, c \in 1..(MaxEvents + 1) : PingExit(m, c)
    \/ \E e \in WsEvents : Deliver(e)

NextWS ==
    \/ NextPair
    \/ \E m \in Connectors : Cancel(m)

SpecWS == InitWS /\ [][NextWS]_vars

SpecPair == InitPair /\ [][NextPair]_vars

(* one connector on a connection that stays up, receiving mostly frames that *)
(* carry no kline data                                                       *)
DeliverFrame(f) == Deliver([type |-> "frame", frame |-> f])

NextDrop ==
    \/ \E m \in Connectors : Start(m)
    \/ \E m \in Connectors : Connect(m)
    \/ \E m \in Connectors : SubscribeSent(m)
    \/ \E m \in Connectors : RecvControl(m)
    \/ \E m \in Connectors : RecvNone(m)
    \/ \E m \in Connectors : RecvData(m)
    \/ \E m \in Connectors : Emit(m)
    \/ \E f \in DropFrames : DeliverFrame(f)

SpecDrop == InitWS /\ [][NextDrop]_vars

----------------------------------------------------------------------------
(* Aggregation specification: a processor fed with base candles, and the   *)
(* aggregator queried on the buffer.                                       *)

InitAgg ==
    /\ timeframe = BaseTimeframe
    /\ aggregate_list \in AggregateLists
    /\ target_timeframes = _process_target_timeframes(timeframe, aggregate_list)
    /\ base_data = <<>>
    /\ last_call = [op |-> "none"]
    /\ active_warmup = TRUE
    /\ InitConnectors({})

AggProcess(k, shape) ==
    LET candle == BaseCandle(timeframe, k, shape, TRUE)
        res == CandleProcess(base_data, candle, target_timeframes, TRUE, MaxBuf)
    IN /\ base_data' = res.data
       /\ last_call' = [op |-> "process", candle |-> candle, out |-> res.out]
       /\ UNCHANGED <<timeframe, aggregate_list, target_timeframes>>
       /\ UNCHANGED <<wsVars, normVars, restVars, procVars, csvVars, bfVars>>

AggAggregate(tf, k) ==
    /\ last_call' = [op |-> "aggregate", tf |-> tf, ref |-> SlotEnd(timeframe, k),
                     result |-> aggregate(base_data, Symbol, tf, SlotEnd(timeframe, k))]
    /\ UNCHANGED <<timeframe, aggregate_list, target_timeframes, base_data>>
    /\ UNCHANGED <<wsVars, normVars, restVars, procVars, csvVars, bfVars>>

AggTimeframes(k) ==
    /\ last_call' = [op |-> "timeframes_to_aggregate", ts |-> SlotEnd(timeframe, k),
                     result |-> timeframes_to_aggregate(target_timeframes,
                                                        SlotEnd(timeframe, k))]
    /\ UNCHANGED <<timeframe, aggregate_list, target_timeframes, base_data>>
    /\ UNCHANGED <<wsVars, normVars, restVars, procVars, csvVars, bfVars>>

NextAgg ==
    \/ \E k \in 0..MaxSlot, shape \in Shapes : AggProcess(k, shape)
    \/ \E k \in 0..MaxSlot : AggTimeframes(k)
    \/ \E i \in 1..Len(target_timeframes), k \in 0..MaxSlot :
            AggAggregate(target_timeframes[i], k)

SpecAgg == InitAgg /\ [][NextAgg]_vars

----------------------------------------------------------------------------
(* Normalizer specification: BybitNormalizers.ws called repeatedly on one  *)
(* message dict.                                                           *)

MaxCalls == 2     \* calls of the normalizer on the same dict

NormTopics == {<<"kline", "60", Symbol>>, <<"kline", "D", Symbol>>, <<"kline", "60">>}

NormFrames ==
    {[op |-> "", success |-> FALSE, topic |-> t, has_data |-> TRUE,
      data |-> <<KlineObj(k, confirm, has_timestamp)>>] :
        t \in NormTopics, k \in 0..MaxSlot, confirm \in BOOLEAN,
        has_timestamp \in BOOLEAN}
    \cup {AckFrame, TickerFrame}

InitNorm ==
    /\ frame \in NormFrames
    /\ ws_results = <<>>
    /\ InitNoRest
    /\ InitNoProc
    /\ InitNoCsv
    /\ InitNoBackfill
    /\ InitNoAgg
    /\ InitNoConnector

NormalizeWs ==
    /\ Len(ws_results) < MaxCalls
    /\ ws_results' = Append(ws_results, BybitNormalizers_ws(frame))
    /\ frame' = BybitNormalizers_ws_effect(frame)
    /\ UNCHANGED <<aggVars, wsVars, restVars, procVars, csvVars, bfVars>>

NextNorm == NormalizeWs

SpecNorm == InitNorm /\ [][NextNorm]_vars

----------------------------------------------------------------------------
(* REST client: util.py, api/util.py, api/api.py, backfilling.py,          *)
(* normalizers/ohlc.py (api) and binance/api/api.py                        *)

MaxDay == 2         \* days after Day0 that a date argument may name
MaxLimit == 3       \* largest api_call_limit of a client
MaxFaults == 2      \* requests of one URL that do not come back with rows

(* 2023-11-15 00:00:00 UTC *)
Day0 == 19676 * 86400

daily_multiplier == 24 * 60 * 60

MARKET_TYPE_STRING_MAP ==
    [mt \in {"DEFAULT", "SPOT", "LINEAR", "INVERSE", "FUTURES (LINEAR)",
             "FUTURES (INVERSE)"} |->
        CASE mt = "DEFAULT" -> "SPOT"
          [] mt = "SPOT" -> "SPOT"
          [] mt = "LINEAR" -> "LINEAR"
          [] mt = "INVERSE" -> "INVERSE"
          [] mt = "FUTURES (LINEAR)" -> "LINEAR"
          [] mt = "FUTURES (INVERSE)" -> "INVERSE"]

MARKET_TYPE_PATH_MAP ==
    [mt \in {"SPOT", "LINEAR", "INVERSE", "DEFAULT"} |->
        CASE mt = "SPOT" -> "spot"
          [] mt = "LINEAR" -> "linear"
          [] mt = "INVERSE" -> "inverse"
          [] mt = "DEFAULT" -> "spot"]

(* api/util.py: the limiter instances, named by their module-level variable *)
BYBIT_API_LIMITER == "BYBIT_API_LIMITER"

(* a limiter map with one instance per market type *)
API_LIMITER_MAP_PerMarket ==
    [mt \in {"DEFAULT", "SPOT", "LINEAR", "INVERSE"} |->
        CASE mt = "DEFAULT" -> BYBIT_API_LIMITER
          [] mt = "SPOT" -> BYBIT_API_LIMITER
          [] mt = "LINEAR" -> "BYBIT_API_LIMITER_LINEAR"
          [] mt = "INVERSE" -> "BYBIT_API_LIMITER_INVERSE"]

API_LIMITER_MAP ==
    [mt \in {"DEFAULT", "SPOT", "LINEAR", "INVERSE"} |-> BYBIT_API_LIMITER]

get_api_limiter(market_type) ==
    LET market_type_string ==
            IF Upper(market_type) \in DOMAIN MARKET_TYPE_STRING_MAP
            THEN MARKET_TYPE_STRING_MAP[Upper(market_type)]
            ELSE "DEFAULT"
    IN IF market_type_string \in DOMAIN API_LIMITER_MAP
       THEN API_LIMITER_MAP[market_type_string]
       ELSE BYBIT_API_LIMITER

(* binance/api/util.py: the limiter of the default market *)
BINANCE_API_LIMITER == "BINANCE_API_LIMITER"

Limiters ==
    {BYBIT_API_LIMITER, "BYBIT_API_LIMITER_LINEAR", "BYBIT_API_LIMITER_INVERSE",
     BINANCE_API_LIMITER}

(* BaseCandleAPI.__init__: the client keeps the limiter and the call limit it *)
(* is given as self.limiter and self.limit                                   *)
BaseCandleAPI(api_limiter, api_call_limit) ==
    [limiter |-> api_limiter, limit |-> api_call_limit]

(* BybitAPI.__init__ *)
BybitAPI(market_type, api_call_limit) ==
    LET market_type_string ==
            IF Upper(market_type) \in DOMAIN MARKET_TYPE_STRING_MAP
            THEN MARKET_TYPE_STRING_MAP[Upper(market_type)]
            ELSE "SPOT"
    IN [exchange |-> "bybit",
        market_type |-> market_type,
        category |-> IF market_type_string \in DOMAIN MARKET_TYPE_PATH_MAP
                     THEN MARKET_TYPE_PATH_MAP[market_type_string]
                     ELSE "spot"]
       @@ BaseCandleAPI(get_api_limiter(market_type), api_call_limit)

(* BinanceAPI.__init__ with the default market type *)
BinanceAPI(api_call_limit) ==
    [exchange |-> "binance", market_type |-> "DEFAULT", category |-> ""]
    @@ BaseCandleAPI(BINANCE_API_LIMITER, api_call_limit)

(* millisecond timestamps: WireInt(seconds, milliseconds, 3) *)
MsOfSeconds(sec) == WireInt(sec, 0, 3)

MsAddSeconds(w, sec) == WireInt(w.hi + sec, w.lo, 3)

MsPlusOne(w) ==
    IF w.lo + 1 < 1000 THEN WireInt(w.hi, w.lo + 1, 3) ELSE WireInt(w.hi + 1, 0, 3)

MsLess(a, b) == a.hi < b.hi \/ (a.hi = b.hi /\ a.lo < b.lo)

MsMin(a, b) == IF MsLess(b, a) THEN b ELSE a

(* a date argument: the string of the day that is day days after Day0, or "now" *)
Date(day) == [kind |-> "date", day |-> day]

Now == [kind |-> "now", day |-> 0]

(* int(datetime.strptime(date, "%Y-%m-%d").timestamp()): the naive datetime is *)
(* read in the local timezone                                                  *)
strptime_timestamp(date, local_utc_offset) ==
    Day0 + date.day * daily_multiplier - local_utc_offset

KlineUrl(self, symbol, interval, start, end) ==
    [category |-> self.category, symbol |-> symbol, interval |-> interval,
     limit |-> self.limit, start |-> start, end |-> end]

(* the while loop with the next chunk starting on the end of the last one *)
RECURSIVE HistoricalChunks_NoPlusOne(_, _, _, _, _, _)
HistoricalChunks_NoPlusOne(self, symbol, tf, interval, current_start_ms, end_timestamp_ms) ==
    IF ~MsLess(current_start_ms, end_timestamp_ms)
    THEN <<>>
    ELSE LET chunk_end_ms == MsMin(MsAddSeconds(current_start_ms, self.limit * tf.offset),
                                   end_timestamp_ms)
         IN <<KlineUrl(self, symbol, interval, current_start_ms, chunk_end_ms)>>
            \o HistoricalChunks_NoPlusOne(self, symbol, tf, interval,
                                          chunk_end_ms, end_timestamp_ms)

(* api.py lines 192-204: the while loop of _process_historical_inputs *)
RECURSIVE HistoricalChunks(_, _, _, _, _, _)
HistoricalChunks(self, symbol, tf, interval, current_start_ms, end_timestamp_ms) ==
    IF ~MsLess(current_start_ms, end_timestamp_ms)
    THEN <<>>
    ELSE LET chunk_end_ms == MsMin(MsAddSeconds(current_start_ms, self.limit * tf.offset),
                                   end_timestamp_ms)
         IN <<KlineUrl(self, symbol, interval, current_start_ms, chunk_end_ms)>>
            \o HistoricalChunks(self, symbol, tf, interval,
                                MsPlusOne(chunk_end_ms), end_timestamp_ms)

(* to_date is a date or "now" *)
_process_historical_inputs(self, symbol, tf, from_date, to_date, now, local_utc_offset) ==
    LET to_date_ts0 == IF to_date = Now THEN now
                       ELSE strptime_timestamp(to_date, local_utc_offset)
        from_date_ts0 == strptime_timestamp(from_date, local_utc_offset)
        from_date_ts == (from_date_ts0 \div daily_multiplier) * daily_multiplier
        to_date_ts == (to_date_ts0 \div daily_multiplier) * daily_multiplier
    IN HistoricalChunks(self, symbol, tf, get_bybit_timeframe(tf.string_tf),
                        MsOfSeconds(from_date_ts), MsOfSeconds(to_date_ts))

(* BybitAPI._process_warmup_urls and BinanceAPI._process_warmup_urls *)
_process_warmup_urls(self, symbol, tf, now) ==
    LET start_timestamp == (now \div daily_multiplier) * daily_multiplier
        n_datapoints == (now - start_timestamp) \div tf.offset
        interval == IF self.exchange = "bybit"
                    THEN get_bybit_timeframe(tf.string_tf)
                    ELSE tf.string_tf
        middle_timestamp == start_timestamp + (1000 * 60)
    IN IF n_datapoints <= self.limit
       THEN <<KlineUrl(self, symbol, interval,
                       MsOfSeconds(start_timestamp), MsOfSeconds(now))>>
       ELSE <<KlineUrl(self, symbol, interval,
                       MsOfSeconds(start_timestamp), MsOfSeconds(middle_timestamp)),
              KlineUrl(self, symbol, interval,
                       MsOfSeconds(middle_timestamp + 1), MsOfSeconds(now))>>

(* The exchange.  Candles of a timeframe open at the multiples of its       *)
(* duration; a request gets the candles whose start lies in [start, end],   *)
(* at most limit of them: Bybit the newest, newest first; Binance the       *)
(* oldest, oldest first.                                                    *)
FirstOpenAtOrAfter(w, d) ==
    IF w.lo = 0 /\ w.hi % d = 0 THEN w.hi ELSE ((w.hi \div d) + 1) * d

LastOpenAtOrBefore(w, d) == (w.hi \div d) * d

KlineRow(open_ts) ==
    [start |-> WireInt(open_ts, 0, 3), open |-> 2, high |-> 4, low |-> 1, close |-> 3,
     volume |-> 1, turnover |-> 3]

OpenTimesInWindow(start, end, d, now) ==
    LET first == FirstOpenAtOrAfter(start, d)
        last == Min(LastOpenAtOrBefore(end, d), (now \div d) * d)
    IN IF last < first THEN <<>>
       ELSE [i \in 1..((last - first) \div d + 1) |-> first + (i - 1) * d]

ExchangeKlines(exchange, url, now) ==
    LET d == Offset(get_streamforge_timeframe(url.interval))
        all == OpenTimesInWindow(url.start, url.end, d, now)
        n == Min(Len(all), url.limit)
    IN IF exchange = "bybit"
       THEN [i \in 1..n |-> KlineRow(all[Len(all) - i + 1])]
       ELSE [i \in 1..n |-> KlineRow(all[i])]

(* list.reverse() *)
Reverse(seq) == [i \in 1..Len(seq) |-> seq[Len(seq) - i + 1]]

(* normalizers/ohlc.py: KlineNormalizer.api *)
KlineNormalizer_api(data, symbol, tf) ==
    LET start_timestamp == WireFloorDiv(data.start, get_timestamp_precision(data.start))
        end_timestamp == start_timestamp + get_timeframe_seconds(tf) - 1
    IN Kline(symbol, tf, start_timestamp, end_timestamp,
             data.open, data.high, data.low, data.close, data.volume, data.turnover,
             KlineDefaultIsClosed, 1)

(* What one request can come back with: an HTTP status, a connection error, *)
(* or, from Bybit, HTTP 200 with a retCode other than 0                     *)
HttpOutcomes(exchange) ==
    {"ok", "429", "403", "418", "500", "connection_error"}
    \cup (IF exchange = "bybit" THEN {"ret_rate_limit", "ret_error"} ELSE {})

(* _fetch_data_with_limit giving up on a rate-limit response *)
FetchOutcomeNoRetry(exchange, outcome) ==
    CASE outcome = "ok" -> [pc |-> "returned", exc |-> "none"]
      [] OTHER -> [pc |-> "raised", exc |-> "Exception"]

(* BybitAPI._fetch_data_with_limit lines 98-133 and                        *)
(* BinanceAPI._fetch_data_with_limit lines 75-94: what the call does with  *)
(* the outcome of its request                                              *)
FetchOutcome(exchange, outcome) ==
    IF exchange = "bybit"
    THEN CASE outcome = "ok" -> [pc |-> "returned", exc |-> "none"]
           [] outcome = "ret_rate_limit" -> [pc |-> "sleeping", exc |-> "none"]
           [] outcome = "ret_error" -> [pc |-> "raised", exc |-> "Exception"]
           [] outcome = "429" -> [pc |-> "sleeping", exc |-> "none"]
           [] outcome = "403" -> [pc |-> "raised", exc |-> "BybitAPIBanError"]
           [] outcome = "connection_error" -> [pc |-> "raised", exc |-> "ConnectionError"]
           [] OTHER -> [pc |-> "raised", exc |-> "Exception"]
    ELSE CASE outcome = "ok" -> [pc |-> "returned", exc |-> "none"]
           [] outcome = "429" -> [pc |-> "sleeping", exc |-> "none"]
           [] outcome = "418" -> [pc |-> "raised", exc |-> "BinanceAPIBanError"]
           [] outcome = "connection_error" -> [pc |-> "raised", exc |-> "ConnectionError"]
           [] OTHER -> [pc |-> "raised", exc |-> "Exception"]

(* the retry after a retCode rate limit (line 108) runs inside the try, so   *)
(* whatever it raises leaves through "except Exception" as a plain Exception *)
Propagate(history, exc) ==
    IF \E i \in 1..Len(history) : history[i] = "ret_rate_limit"
    THEN "Exception"
    ELSE exc

NewTask == [pc |-> "idle", history |-> <<>>, result |-> <<>>, exc |-> "none"]

RECURSIVE CountFaults(_)
CountFaults(history) ==
    IF history = <<>> THEN 0
    ELSE (IF Head(history) = "ok" THEN 0 ELSE 1) + CountFaults(Tail(history))

(* the environment lets the requests of at most one URL of an operation fail, *)
(* at most MaxFaults times                                                    *)
MayFail(tasks, i) ==
    /\ CountFaults(tasks[i].history) < MaxFaults
    /\ \A j \in 1..Len(tasks) : j # i => CountFaults(tasks[j].history) = 0

Clients == DOMAIN api

(* the operation starts: the URLs are built *)
ProcessInputs(c) ==
    /\ rest_pc[c] = "init"
    /\ LET tf == TIMEFRAME_CLASS_MAP[rest_op[c].timeframe]
           built == IF rest_op[c].kind = "historical"
                    THEN _process_historical_inputs(api[c], Symbol, tf,
                                                    rest_op[c].from_date,
                                                    rest_op[c].to_date,
                                                    utc_now, utc_offset)
                    ELSE _process_warmup_urls(api[c], Symbol, tf, utc_now)
       IN /\ urls' = [urls EXCEPT ![c] = built]
          /\ task' = [task EXCEPT ![c] = [i \in 1..Len(built) |-> NewTask]]
          /\ url_idx' = [url_idx EXCEPT ![c] = 1]
          /\ rest_pc' = [rest_pc EXCEPT ![c] = IF built = <<>> THEN "done" ELSE "fetching"]
    /\ UNCHANGED <<utc_now, utc_offset, api, rest_op, rest_out, limiter_acquired>>
    /\ UNCHANGED <<aggVars, wsVars, normVars, procVars, csvVars, bfVars>>

(* fetch_historical_candles awaits one URL at a time; fetch_candles gathers all *)
TaskStarted(c, i) ==
    IF rest_op[c].kind = "historical" THEN i = url_idx[c] ELSE TRUE

(* async with self.limiter *)
Acquire(c, i) ==
    /\ rest_pc[c] = "fetching"
    /\ TaskStarted(c, i)
    /\ task[c][i].pc = "idle"
    /\ limiter_acquired' = [limiter_acquired EXCEPT ![api[c].limiter] = @ + 1]
    /\ task' = [task EXCEPT ![c][i].pc = "acquired"]
    /\ UNCHANGED <<utc_now, utc_offset, api, rest_op, rest_pc, urls, url_idx, rest_out>>
    /\ UNCHANGED <<aggVars, wsVars, normVars, procVars, csvVars, bfVars>>

(* session.get(url) and what the call makes of the response *)
Respond(c, i, outcome) ==
    /\ rest_pc[c] = "fetching"
    /\ task[c][i].pc = "acquired"
    /\ outcome \in HttpOutcomes(api[c].exchange)
    /\ outcome = "ok" \/ MayFail(task[c], i)
    /\ LET h == FetchOutcome(api[c].exchange, outcome)
       IN task' = [task EXCEPT ![c][i] =
                    [pc |-> h.pc,
                     history |-> Append(@.history, outcome),
                     result |-> IF h.pc = "returned"
                                THEN ExchangeKlines(api[c].exchange, urls[c][i], utc_now)
                                ELSE <<>>,
                     exc |-> IF h.pc = "raised"
                             THEN Propagate(@.history, h.exc)
                             ELSE "none"]]
    /\ UNCHANGED <<utc_now, utc_offset, api, rest_op, rest_pc, urls, url_idx, rest_out,
                   limiter_acquired>>
    /\ UNCHANGED <<aggVars, wsVars, normVars, procVars, csvVars, bfVars>>

(* the sleep is over: the call calls itself with the same URL *)
Retry(c, i) ==
    /\ rest_pc[c] = "fetching"
    /\ task[c][i].pc = "sleeping"
    /\ task' = [task EXCEPT ![c][i].pc = "idle"]
    /\ UNCHANGED <<utc_now, utc_offset, api, rest_op, rest_pc, urls, url_idx, rest_out,
                   limiter_acquired>>
    /\ UNCHANGED <<aggVars, wsVars, normVars, procVars, csvVars, bfVars>>

(* the candles a batch becomes in BybitBackfilling.fetch_historical_data *)
NormalizeBatch(kline_batch, symbol, tf) ==
    [j \in 1..Len(kline_batch) |-> KlineNormalizer_api(kline_batch[j], symbol, tf)]

(* fetch_historical_candles lines 225-230 with the batch yielded as received *)
YieldWindowNotReversed(c) ==
    /\ rest_pc[c] = "fetching"
    /\ rest_op[c].kind = "historical"
    /\ task[c][url_idx[c]].pc = "returned"
    /\ LET klines == task[c][url_idx[c]].result
       IN rest_out' = [rest_out EXCEPT ![c] =
                        @ \o NormalizeBatch(klines, Symbol, rest_op[c].timeframe)]
    /\ url_idx' = [url_idx EXCEPT ![c] = @ + 1]
    /\ rest_pc' = [rest_pc EXCEPT ![c] =
                    IF url_idx[c] = Len(urls[c]) THEN "done" ELSE "fetching"]
    /\ UNCHANGED <<utc_now, utc_offset, api, rest_op, urls, task, limiter_acquired>>
    /\ UNCHANGED <<aggVars, wsVars, normVars, procVars, csvVars, bfVars>>

(* fetch_historical_candles lines 225-230 and fetch_historical_data: the    *)
(* window is reversed, normalized row by row and handed to the caller       *)
YieldWindow(c) ==
    /\ rest_pc[c] = "fetching"
    /\ rest_op[c].kind = "historical"
    /\ task[c][url_idx[c]].pc = "returned"
    /\ LET klines == task[c][url_idx[c]].result
       IN rest_out' = [rest_out EXCEPT ![c] =
                        @ \o NormalizeBatch(Reverse(klines), Symbol, rest_op[c].timeframe)]
    /\ url_idx' = [url_idx EXCEPT ![c] = @ + 1]
    /\ rest_pc' = [rest_pc EXCEPT ![c] =
                    IF url_idx[c] = Len(urls[c]) THEN "done" ELSE "fetching"]
    /\ UNCHANGED <<utc_now, utc_offset, api, rest_op, urls, task, limiter_acquired>>
    /\ UNCHANGED <<aggVars, wsVars, normVars, procVars, csvVars, bfVars>>

RECURSIVE Flatten(_)
Flatten(responses) ==
    IF responses = <<>> THEN <<>> ELSE Head(responses) \o Flatten(Tail(responses))

(* fetch_candles lines 247-253 (Bybit: one flattened list inside a list) and *)
(* BinanceAPI.fetch_candles lines 112-113 (the list of responses)            *)
Gather(c) ==
    /\ rest_pc[c] = "fetching"
    /\ rest_op[c].kind = "warmup"
    /\ \A i \in 1..Len(task[c]) : task[c][i].pc = "returned"
    /\ LET responses == [i \in 1..Len(task[c]) |-> task[c][i].result]
       IN rest_out' = [rest_out EXCEPT ![c] =
                        IF api[c].exchange = "bybit"
                        THEN <<Flatten(responses)>>
                        ELSE responses]
    /\ rest_pc' = [rest_pc EXCEPT ![c] = "done"]
    /\ UNCHANGED <<utc_now, utc_offset, api, rest_op, urls, url_idx, task, limiter_acquired>>
    /\ UNCHANGED <<aggVars, wsVars, normVars, procVars, csvVars, bfVars>>

(* an exception leaves _fetch_data_with_limit: the range fetch passes it to *)
(* its caller, fetch_candles logs it and calls sys.exit(1)                  *)
Fail(c) ==
    /\ rest_pc[c] = "fetching"
    /\ \E i \in 1..Len(task[c]) : task[c][i].pc = "raised"
    /\ rest_pc' = [rest_pc EXCEPT ![c] =
                    IF rest_op[c].kind = "historical" THEN "raised" ELSE "exit"]
    /\ UNCHANGED <<utc_now, utc_offset, api, rest_op, urls, url_idx, task, rest_out,
                   limiter_acquired>>
    /\ UNCHANGED <<aggVars, wsVars, normVars, procVars, csvVars, bfVars>>

(* Inputs of the REST specifications *)
RestTimeframes == {"4h", "1d"}

MarketTypes ==
    {"DEFAULT", "SPOT", "LINEAR", "INVERSE", "FUTURES (LINEAR)", "FUTURES (INVERSE)",
     "linear", "OPTION"}

LocalUtcOffsets == {0, 3 * 3600}

(* the clock reads 09:00:20 or 21:00:20 UTC of the last day *)
NowTimes == {Day0 + MaxDay * daily_multiplier + h * 3600 + 20 : h \in {9, 21}}

HistoricalOps ==
    {[kind |-> "historical", timeframe |-> tf, from_date |-> Date(f), to_date |-> t] :
        tf \in RestTimeframes, f \in 0..MaxDay,
        t \in {Date(d) : d \in 0..MaxDay} \cup {Now}}

WarmupOps ==
    {[kind |-> "warmup", timeframe |-> tf, from_date |-> Now, to_date |-> Now] :
        tf \in RestTimeframes}

InitRestEnv ==
    /\ limiter_acquired = [l \in Limiters |-> 0]
    /\ InitNoFrame
    /\ InitNoProc
    /\ InitNoCsv
    /\ InitNoBackfill
    /\ InitNoAgg
    /\ InitNoConnector

(* one client: a Bybit range fetch, a Bybit warmup fetch or a Binance warmup fetch *)
InitRest ==
    /\ InitRestEnv
    /\ InitRestClients({"a"})
    /\ \E limit \in 1..MaxLimit :
          \/ /\ api = [c \in {"a"} |-> BybitAPI("DEFAULT", limit)]
             /\ \E o \in HistoricalOps : rest_op = [c \in {"a"} |-> o]
             /\ utc_now = Day0 + MaxDay * daily_multiplier + 9 * 3600 + 20
             /\ utc_offset \in LocalUtcOffsets
          \/ /\ \E self \in {BybitAPI("LINEAR", limit), BinanceAPI(limit)} :
                    api = [c \in {"a"} |-> self]
             /\ \E o \in WarmupOps : rest_op = [c \in {"a"} |-> o]
             /\ utc_now \in NowTimes
             /\ utc_offset = 0

NextRest ==
    \/ \E c \in Clients : ProcessInputs(c)
    \/ \E c \in Clients : \E i \in 1..Len(task[c]) : Acquire(c, i)
    \/ \E c \in Clients : \E i \in 1..Len(task[c]),
          outcome \in HttpOutcomes("bybit") : Respond(c, i, outcome)
    \/ \E c \in Clients : \E i \in 1..Len(task[c]) : Retry(c, i)
    \/ \E c \in Clients : YieldWindow(c)
    \/ \E c \in Clients : Gather(c)
    \/ \E c \in Clients : Fail(c)

SpecRest == InitRest /\ [][NextRest]_vars

(* two Bybit clients of any two market types, each fetching the warmup of the *)
(* daily timeframe at the same time                                           *)
InitRestPair ==
    /\ InitRestEnv
    /\ utc_now \in NowTimes
    /\ utc_offset = 0
    /\ InitRestClients({"a", "b"})
    /\ \E ma \in MarketTypes, mb \in {"INVERSE"} :
          api = [c \in {"a", "b"} |->
                    BybitAPI(IF c = "a" THEN ma ELSE mb, MaxLimit)]
    /\ rest_op = [c \in {"a", "b"} |->
                    [kind |-> "warmup", timeframe |-> "1d", from_date |-> Now,
                     to_date |-> Now]]

NextRestPair ==
    \/ \E c \in Clients : ProcessInputs(c)
    \/ \E c \in Clients : \E i \in 1..Len(task[c]) : Acquire(c, i)
    \/ \E c \in Clients : \E i \in 1..Len(task[c]),
          outcome \in HttpOutcomes("bybit") : Respond(c, i, outcome)
    \/ \E c \in Clients : \E i \in 1..Len(task[c]) : Retry(c, i)
    \/ \E c \in Clients : Gather(c)
    \/ \E c \in Clients : Fail(c)

SpecRestPair == InitRestPair /\ [][NextRestPair]_vars

(* one connector on a connection that can fall silent: twice the ping      *)
(* interval passes with the transport open and no frame arriving.  recv()  *)
(* is awaited without a timeout, so it goes on waiting.                    *)
SilenceEvent == [type |-> "silence"]

IdleEvents ==
    {SilenceEvent, [type |-> "timeout"],
     [type |-> "frame", frame |-> PongFrame],
     [type |-> "frame", frame |-> KlineFrame(FirstLiveSlot, TRUE, TRUE)]}

RecvSilence(m) ==
    /\ pc[m] = "recv"
    /\ cursor[m] < Len(wire)
    /\ NextEvent(m).type = "silence"
    /\ cursor' = [cursor EXCEPT ![m] = @ + 1]
    /\ UNCHANGED <<active_warmup, sent, wire, pc, conn, ws_open, ping_tasks,
                   processor, pending, processed, emitted>>
    /\ UNCHANGED <<aggVars, normVars, restVars, procVars, csvVars, bfVars>>

NextIdle ==
    \/ \E m \in Connectors : Start(m)
    \/ \E m \in Connectors : Connect(m)
    \/ \E m \in Connectors : SubscribeSent(m)
    \/ \E m \in Connectors : RecvControl(m)
    \/ \E m \in Connectors : RecvData(m)
    \/ \E m \in Connectors : Emit(m)
    \/ \E m \in Connectors : RecvTimeout(m)
    \/ \E m \in Connectors : RecvSilence(m)
    \/ \E m \in Connectors : Backoff(m)
    \/ \E e \in IdleEvents : Deliver(e)

SpecIdle == InitWS /\ [][NextIdle]_vars

(* one connector whose aggregate_list may name a timeframe that is not in *)
(* the timeframe table                                                     *)
ConfigAggregateLists == {<<"2h", "4h">>, <<"7m">>, <<"2h", "7m">>}

InitConfig ==
    /\ timeframe = BaseTimeframe
    /\ aggregate_list \in ConfigAggregateLists
    /\ target_timeframes = _process_target_timeframes(timeframe, aggregate_list)
    /\ base_data = <<>>
    /\ last_call = [op |-> "none"]
    /\ active_warmup = TRUE
    /\ \E m \in Modes : InitConnectors({m})

SpecConfig == InitConfig /\ [][NextDrop]_vars

----------------------------------------------------------------------------
(* General processor specification: one BybitProcessor initialised with a *)
(* DataInput, then given the kline frames of a stream.                     *)

(* the stream types check_input lets through *)
valid_types == {"kline", "klines", "candle", "ohlc", "ohlcv"}

DataInput(type, agg_list) ==
    [type |-> type, symbols |-> <<Symbol>>, timeframe |-> BaseTimeframe,
     aggregate_list |-> agg_list]

InitProc ==
    /\ \E type \in valid_types, agg_list \in WsAggregateLists :
            data_input = DataInput(type, agg_list)
    /\ processors_map = bybit_processors_map
    /\ proc_pc = "new"
    /\ proc_calls = <<>>
    /\ InitNoCsv
    /\ InitNoBackfill
    /\ InitNoAgg
    /\ InitNoConnector
    /\ InitNoFrame
    /\ InitNoRest

InitProcessors ==
    /\ proc_pc = "new"
    /\ LET res == BybitProcessor_init_processors(processors_map, data_input)
       IN /\ processors_map' = res.map
          /\ proc_pc' = IF res.status = "ok" THEN "ready" ELSE "raised"
    /\ UNCHANGED <<data_input, proc_calls>>
    /\ UNCHANGED <<aggVars, wsVars, normVars, restVars, csvVars, bfVars>>

(* one pass of the receive loop on a frame that normalizes to a candle *)
ProcessFrame(f) ==
    /\ proc_pc = "ready"
    /\ Len(proc_calls) < MaxEvents
    /\ ~IsControl(f)
    /\ BybitNormalizers_ws(f).status = "ok"
    /\ LET route == BybitProcessor_route(processors_map, f)
       IN /\ proc_calls' = Append(proc_calls,
                                 [frame |-> f, status |-> route.status,
                                  processor |-> route.processor])
          /\ proc_pc' = IF route.status \in {"ok", "return"} THEN "ready" ELSE "raised"
    /\ UNCHANGED <<data_input, processors_map>>
    /\ UNCHANGED <<aggVars, wsVars, normVars, restVars, csvVars, bfVars>>

NextProc ==
    \/ InitProcessors
    \/ \E f \in WsFrames : ProcessFrame(f)

SpecProc == InitProc /\ [][NextProc]_vars

----------------------------------------------------------------------------
(* CSV emitter: base/emitters/csv/csv.py.  A record (dict) is a function   *)
(* from column names to values; a Kline is told from a dict by its kind.   *)

MaxRows == 3        \* rows the file may hold

(* Kline.model_dump() *)
model_dump(kline) == [f \in (DOMAIN kline) \ {"kind"} |-> kline[f]]

IsKline(data) == "kind" \in DOMAIN data

(* transformer functions a user may pass: dict -> dict *)
Transformers == {[kind |-> "function", name |-> n] : n \in {"price_only", "tagged"}}

ApplyTransformer(fn, d) ==
    IF fn.name = "price_only"
    THEN [symbol |-> d.symbol, time |-> d.open_ts, price |-> d.close]
    ELSE [exchange |-> "bybit"] @@ d

(* CSVEmitter.transform: dispatch on the type of data *)
CSVEmitter_transform(data) == IF IsKline(data) THEN model_dump(data) ELSE data

(* the file at file_path: the header lines it holds, each with its columns  *)
(* and its line number, and its data rows in file order                     *)
NoFile == [exists |-> FALSE, header |-> <<>>, rows |-> <<>>]

(* to_csv writing a header line whatever the header argument says *)
to_csv_HeaderAlways(file, batch, mode, header) ==
    LET prior == IF mode = "a" THEN file ELSE NoFile
    IN [exists |-> TRUE,
        header |-> Append(prior.header,
                          [columns |-> UNION {DOMAIN batch[i] : i \in 1..Len(batch)},
                           line |-> Len(prior.header) + Len(prior.rows) + 1]),
        rows |-> prior.rows \o batch]

(* DataFrame(batch).to_csv(file_path, mode=mode, header=header): mode "a"   *)
(* writes after the file's content, mode "w" replaces it; a header line     *)
(* with the batch's columns comes first when header is true                 *)
to_csv(file, batch, mode, header) ==
    LET prior == IF mode = "a" THEN file ELSE NoFile
    IN [exists |-> TRUE,
        header |-> IF header
                   THEN Append(prior.header,
                               [columns |-> UNION {DOMAIN batch[i] : i \in 1..Len(batch)},
                                line |-> Len(prior.header) + Len(prior.rows) + 1])
                   ELSE prior.header,
        rows |-> prior.rows \o batch]

(* _emit_single(data): append without header to an existing file, write a  *)
(* new file with header otherwise                                           *)
_emit_single(file, data) ==
    IF file.exists
    THEN to_csv(file, data, "a", ~file.exists)
    ELSE to_csv(file, data, "w", TRUE)

(* records handed to the emitter: a candle and a dict *)
EmitRecords ==
    {BaseCandle(BaseTimeframe, 0, shape, TRUE) : shape \in Shapes}
    \cup {model_dump(BaseCandle(BaseTimeframe, 1, shape, TRUE)) : shape \in Shapes}

InitCsv ==
    /\ custom_transformer \in Transformers \cup {None}
    /\ csv_file = [exists |-> FALSE, header |-> <<>>, rows |-> <<>>]
    /\ csv_log = <<>>
    /\ InitNoAgg
    /\ InitNoConnector
    /\ InitNoFrame
    /\ InitNoRest
    /\ InitNoProc
    /\ InitNoBackfill

(* set_transformer(fn) *)
SetTransformer(fn) ==
    /\ custom_transformer' = fn
    /\ UNCHANGED <<csv_file, csv_log>>
    /\ UNCHANGED <<aggVars, wsVars, normVars, restVars, procVars, bfVars>>

(* emit(data) for a dict or a Kline: transform, then _emit_single *)
CsvEmit(data) ==
    /\ Len(csv_file.rows) < MaxRows
    /\ LET batch_data == <<CSVEmitter_transform(data)>>
       IN csv_file' = _emit_single(csv_file, batch_data)
    /\ csv_log' = Append(csv_log, [data |-> data, transformer |-> custom_transformer])
    /\ UNCHANGED custom_transformer
    /\ UNCHANGED <<aggVars, wsVars, normVars, restVars, procVars, bfVars>>

(* emit_bulk(data_list) *)
CsvEmitBulk(data_list) ==
    /\ data_list # <<>>
    /\ Len(csv_file.rows) + Len(data_list) <= MaxRows
    /\ LET batch == [i \in 1..Len(data_list) |-> CSVEmitter_transform(data_list[i])]
       IN csv_file' = to_csv(csv_file, batch, "a", ~csv_file.exists)
    /\ csv_log' = csv_log \o [i \in 1..Len(data_list) |->
                                [data |-> data_list[i], transformer |-> custom_transformer]]
    /\ UNCHANGED custom_transformer
    /\ UNCHANGED <<aggVars, wsVars, normVars, restVars, procVars, bfVars>>

NextCsv ==
    \/ \E fn \in Transformers : SetTransformer(fn)
    \/ \E data \in EmitRecords : CsvEmit(data)
    \/ \E data_list \in SeqsNoRep(EmitRecords, 2) : CsvEmitBulk(data_list)

SpecCsv == InitCsv /\ [][NextCsv]_vars

(* the emitter on a file path where the file is absent, or where an earlier *)
(* emitter left a file with its header and one row                          *)
ExistingFile ==
    LET row == model_dump(BaseCandle(BaseTimeframe, 2, CHOOSE shape \in Shapes : shape.open = 2, TRUE))
    IN to_csv(NoFile, <<row>>, "a", TRUE)

InitCsvFile ==
    /\ custom_transformer = None
    /\ csv_file \in {NoFile, ExistingFile}
    /\ csv_log = <<>>
    /\ InitNoAgg
    /\ InitNoConnector
    /\ InitNoFrame
    /\ InitNoRest
    /\ InitNoProc
    /\ InitNoBackfill

SpecCsvFile == InitCsvFile /\ [][NextCsv]_vars

----------------------------------------------------------------------------
(* Backfilling: backfilling.py.  BybitBackfilling._emitter_holder is made   *)
(* once, in the class body, so every instance reads and writes the same     *)
(* holder.  The holder keeps the emitters in the order they were added      *)
(* and hands a batch to each of them.                                       *)

MaxHolder == 3          \* emitters the holder may hold
MaxDeliveries == 4      \* emit_bulk calls recorded
MaxFetched == 3         \* candles one stream() call fetches
MaxBatch == 3           \* batch_size of a stream() call

(* _run_with_emitter_bulk(batch_size=1000) *)
DefaultBatchSize == 1000

(* BybitBackfilling.transform: model_dump unless a dict, then the transformer *)
BybitBackfilling_transform(transformer, data) ==
    LET d == IF IsKline(data) THEN model_dump(data) ELSE data
    IN IF transformer # None THEN ApplyTransformer(transformer, d) ELSE d

(* the loop of stream() yielding the buffer before it has batch_size rows *)
RECURSIVE stream_loop_EarlyYield(_, _, _, _, _)
stream_loop_EarlyYield(fetched, transformer, batch_size, buffer, yielded) ==
    IF fetched = <<>>
    THEN IF buffer # <<>> THEN Append(yielded, buffer) ELSE yielded
    ELSE LET row == BybitBackfilling_transform(transformer, Head(fetched))
             appended == Append(buffer, row)
         IN IF Len(appended) >= batch_size - 1
            THEN stream_loop_EarlyYield(Tail(fetched), transformer, batch_size, <<>>,
                                        Append(yielded, appended))
            ELSE stream_loop_EarlyYield(Tail(fetched), transformer, batch_size, appended, yielded)

(* the loop of stream(): fetched is what fetch_historical_data has still to *)
(* yield, buffer the rows held, yielded the batches given out so far        *)
RECURSIVE stream_loop(_, _, _, _, _)
stream_loop(fetched, transformer, batch_size, buffer, yielded) ==
    IF fetched = <<>>
    THEN IF buffer # <<>> THEN Append(yielded, buffer) ELSE yielded
    ELSE LET row == BybitBackfilling_transform(transformer, Head(fetched))
             appended == Append(buffer, row)
         IN IF Len(appended) >= batch_size
            THEN stream_loop(Tail(fetched), transformer, batch_size, <<>>,
                             Append(yielded, appended))
            ELSE stream_loop(Tail(fetched), transformer, batch_size, appended, yielded)

(* BybitBackfilling.stream(batch_size): the batches in the order yielded *)
BybitBackfilling_stream(fetched, transformer, batch_size) ==
    stream_loop(fetched, transformer, batch_size, <<>>, <<>>)

(* the instances: one per market type, same symbol, timeframe and dates *)
Backfillers == {"SPOT", "LINEAR"}

(* _file_name(): the parts the default file name is made of *)
_file_name(symbol, market_type, tf, from_date, to_date) ==
    [name |-> <<"Bybit", symbol, MARKET_TYPE_STRING_MAP[market_type], tf, from_date, to_date>>,
     suffix |-> ".csv"]

(* BybitBackfilling(symbol, timeframe, from_date, to_date, market_type) *)
BybitBackfilling(market_type) ==
    [symbol |-> Symbol, timeframe |-> BaseTimeframe,
     from_date |-> "2024-10-01", to_date |-> "2024-10-07",
     market_type |-> market_type,
     file_path |-> _file_name(Symbol, market_type, BaseTimeframe, "2024-10-01", "2024-10-07"),
     transformer |-> None]

(* what fetch_historical_data yields for an instance: two closed candles,  *)
(* with the prices of its market                                            *)
FetchedCandles(i) ==
    LET shape == IF i = "SPOT" THEN CHOOSE s \in Shapes : s.open = 2
                               ELSE CHOOSE s \in Shapes : s.open = 5
    IN [k \in 1..2 |-> BaseCandle(BaseTimeframe, k - 1, shape, TRUE)]

(* the emitter objects the user makes, and the CSVEmitter run() makes for  *)
(* an instance                                                              *)
UserEmitters == {"user_csv", "user_postgres"}
DefaultEmitter == [SPOT |-> "default_csv_SPOT", LINEAR |-> "default_csv_LINEAR"]
EMITTER(e) == IF e = "user_postgres" THEN "postgres" ELSE "csv"

(* EmitterHolder: add, empty, emit_bulk *)
EmitterHolder_add(holder, emitter) == Append(holder, emitter)
EmitterHolder_empty(holder) == Len(holder) = 0
EmitterHolder_emit_bulk(holder, ems, i, data) ==
    [k \in 1..Len(holder) |->
        [emitter |-> holder[k], file_path |-> ems[holder[k]].file_path,
         instance |-> i, batch |-> data]]

(* register_emitter: a csv emitter takes the instance's file_path *)
register_emitter_set_file_path(ems, i, e) ==
    IF ems[e].EMITTER = "csv"
    THEN [ems EXCEPT ![e].file_path = BybitBackfilling(i).file_path]
    ELSE ems

(* _run_with_emitter_bulk: every batch of stream() to the holder *)
RECURSIVE _run_with_emitter_bulk(_, _, _, _)
_run_with_emitter_bulk(batches, holder, ems, i) ==
    IF batches = <<>> THEN <<>>
    ELSE EmitterHolder_emit_bulk(holder, ems, i, Head(batches))
         \o _run_with_emitter_bulk(Tail(batches), holder, ems, i)

InitBackfill ==
    /\ emitter_holder = <<>>
    /\ emitters = [e \in UserEmitters |-> [EMITTER |-> EMITTER(e), file_path |-> None]]
    /\ registered_on = [i \in Backfillers |-> <<>>]
    /\ deliveries = <<>>
    /\ InitNoAgg
    /\ InitNoConnector
    /\ InitNoFrame
    /\ InitNoRest
    /\ InitNoProc
    /\ InitNoCsv

(* backfiller.register_emitter(emitter) *)
RegisterEmitter(i, e) ==
    /\ Len(emitter_holder) < MaxHolder
    /\ emitters' = register_emitter_set_file_path(emitters, i, e)
    /\ emitter_holder' = EmitterHolder_add(emitter_holder, e)
    /\ registered_on' = [registered_on EXCEPT ![i] = Append(@, e)]
    /\ UNCHANGED deliveries
    /\ UNCHANGED <<aggVars, wsVars, normVars, restVars, procVars, csvVars>>

(* backfiller.run() *)
BackfillRun(i) ==
    LET self == BybitBackfilling(i)
        csv_emitter == DefaultEmitter[i]
        made == IF EmitterHolder_empty(emitter_holder)
                THEN (csv_emitter :> [EMITTER |-> "csv", file_path |-> self.file_path]) @@ emitters
                ELSE emitters
        ems == IF EmitterHolder_empty(emitter_holder)
               THEN register_emitter_set_file_path(made, i, csv_emitter)
               ELSE emitters
        holder == IF EmitterHolder_empty(emitter_holder)
                  THEN EmitterHolder_add(emitter_holder, csv_emitter)
                  ELSE emitter_holder
        batches == BybitBackfilling_stream(FetchedCandles(i), self.transformer, DefaultBatchSize)
        emitted_bulk == _run_with_emitter_bulk(batches, holder, ems, i)
    IN /\ Len(deliveries) + Len(emitted_bulk) <= MaxDeliveries
       /\ emitters' = ems
       /\ emitter_holder' = holder
       /\ deliveries' = deliveries \o emitted_bulk
       /\ UNCHANGED registered_on
       /\ UNCHANGED <<aggVars, wsVars, normVars, restVars, procVars, csvVars>>

NextBackfill ==
    \/ \E i \in Backfillers, e \in UserEmitters : RegisterEmitter(i, e)
    \/ \E i \in Backfillers : BackfillRun(i)

SpecBackfill == InitBackfill /\ [][NextBackfill]_vars

----------------------------------------------------------------------------
(* Call specification: the functions of the package called on their own,  *)
(* one call per step; last_call holds the arguments and the result.        *)

InitCall ==
    /\ InitNoAgg
    /\ InitNoConnector
    /\ InitNoFrame
    /\ InitNoRest
    /\ InitNoProc
    /\ InitNoCsv
    /\ InitNoBackfill

(* the timeframe strings that TIMEFRAME_TO_BYBIT_MAP translates, monthly aside *)
ApiTimeframes == DOMAIN TIMEFRAME_TO_BYBIT_MAP \ {"1M"}

(* KlineNormalizer().api(data=row, symbol=..., timeframe=tf) on a row that *)
(* starts k hours after T0                                                 *)
CallNormalizerApi(tf, k) ==
    LET data == KlineRow(T0 + k * 3600)
    IN /\ last_call' = [op |-> "KlineNormalizer.api", timeframe |-> tf, data |-> data,
                        result |-> KlineNormalizer_api(data, Symbol, tf)]
       /\ UNCHANGED <<timeframe, aggregate_list, target_timeframes, base_data>>
       /\ UNCHANGED <<wsVars, normVars, restVars, procVars, csvVars, bfVars>>

(* AggregateTF(timeframe=base, target_timeframes=list).target_timeframes *)
CallBases == {"5m", "15m", "1h"}
CallTargetPool == {"1m", "5m", "15m", "30m", "1h", "2h", "7m"}

CallProcessTargets(base, timeframes_list) ==
    /\ last_call' = [op |-> "_process_target_timeframes", timeframe |-> base,
                     timeframes_list |-> timeframes_list,
                     result |-> _process_target_timeframes(base, timeframes_list)]
    /\ UNCHANGED <<timeframe, aggregate_list, target_timeframes, base_data>>
    /\ UNCHANGED <<wsVars, normVars, restVars, procVars, csvVars, bfVars>>

(* int(timestamp) // get_timestamp_precision(timestamp) on the encodings of *)
(* one instant in seconds, milliseconds and microseconds                   *)
Instants == {Pow10(9), 2147483647} \cup {T0 + k * 3600 : k \in 0..MaxSlot}

Encodings(sec) ==
    {WireInt(sec, 0, 0)}
    \cup {WireInt(sec, frac, 3) : frac \in {0, 1, 999}}
    \cup {WireInt(sec, frac, 6) : frac \in {0, 1, 999999}}

CallTimestampPrecision(sec, w) ==
    /\ last_call' = [op |-> "get_timestamp_precision", instant |-> sec, timestamp |-> w,
                     precision |-> get_timestamp_precision(w),
                     result |-> WireFloorDiv(w, get_timestamp_precision(w))]
    /\ UNCHANGED <<timeframe, aggregate_list, target_timeframes, base_data>>
    /\ UNCHANGED <<wsVars, normVars, restVars, procVars, csvVars, bfVars>>

(* what fetch_historical_data yields to a stream() call: n closed candles   *)
(* of consecutive periods, no two alike                                    *)
StreamCandles(n) ==
    [k \in 1..n |->
        BaseCandle(BaseTimeframe, k - 1,
                   [open |-> k, high |-> k + 2, low |-> k, close |-> k + 1,
                    volume |-> k, quote_volume |-> NoQuote], TRUE)]

(* [batch async for batch in BybitBackfilling(..., transformer=fn).stream(batch_size)] *)
CallStream(n, fn, batch_size) ==
    /\ last_call' = [op |-> "stream", fetched |-> StreamCandles(n), transformer |-> fn,
                     batch_size |-> batch_size,
                     result |-> BybitBackfilling_stream(StreamCandles(n), fn, batch_size)]
    /\ UNCHANGED <<timeframe, aggregate_list, target_timeframes, base_data>>
    /\ UNCHANGED <<wsVars, normVars, restVars, procVars, csvVars, bfVars>>

(* get_streamforge_timeframe(get_bybit_timeframe(tf)): the interval put in *)
(* the subscription topic, and what the topic decodes back to              *)
CallBybitTimeframe(tf) ==
    /\ last_call' = [op |-> "get_bybit_timeframe", timeframe |-> tf,
                     interval |-> get_bybit_timeframe(tf),
                     result |-> get_streamforge_timeframe(get_bybit_timeframe(tf))]
    /\ UNCHANGED <<timeframe, aggregate_list, target_timeframes, base_data>>
    /\ UNCHANGED <<wsVars, normVars, restVars, procVars, csvVars, bfVars>>

NextCall ==
    \/ \E tf \in ApiTimeframes, k \in 0..MaxSlot : CallNormalizerApi(tf, k)
    \/ \E base \in CallBases, l \in SeqsNoRep(CallTargetPool, MaxTargets) :
            CallProcessTargets(base, l)
    \/ \E sec \in Instants : \E w \in Encodings(sec) : CallTimestampPrecision(sec, w)
    \/ \E n \in 0..MaxFetched, fn \in Transformers \cup {None}, batch_size \in 1..MaxBatch :
            CallStream(n, fn, batch_size)
    \/ \E tf \in DOMAIN TIMEFRAME_TO_BYBIT_MAP : CallBybitTimeframe(tf)

SpecCall == InitCall /\ [][NextCall]_vars

----------------------------------------------------------------------------
(* Helpers of the properties *)

RECURSIVE SumVolume(_)
SumVolume(data) == IF data = <<>> THEN 0 ELSE Head(data).volume + SumVolume(Tail(data))

HighestHigh(data) ==
    CHOOSE h \in {data[i].high : i \in 1..Len(data)} :
        \A i \in 1..Len(data) : data[i].high <= h

LowestLow(data) ==
    CHOOSE l \in {data[i].low : i \in 1..Len(data)} :
        \A i \in 1..Len(data) : data[i].low >= l

BucketSize(tf) == Offset(tf) \div Offset(timeframe)

(* data is exactly the consecutive base candles of the bucket of tf that ends at ref *)
FullBucket(data, tf, ref) ==
    /\ Len(data) = BucketSize(tf)
    /\ \A i \in 1..Len(data) :
          data[i].open_ts = adjust_timestamp(ref, Offset(tf)) + (i - 1) * Offset(timeframe)
    /\ data[Len(data)].end_ts = ref

AggregateCalled == last_call.op = "aggregate"
ProcessCalled == last_call.op = "process"

----------------------------------------------------------------------------
(* C1: when the buffer holds exactly the N consecutive base candles of one *)
(* target bucket, aggregate returns a candle with open = first.open,       *)
(* close = last.close, high = max of highs, low = min of lows,             *)
(* volume = sum of volumes and count = N.                                  *)
C1_AggregationConservation ==
    (AggregateCalled /\ FullBucket(base_data, last_call.tf, last_call.ref)) =>
        LET r == last_call.result
        IN /\ r # None
           /\ r.open = base_data[1].open
           /\ r.close = base_data[Len(base_data)].close
           /\ r.high = HighestHigh(base_data)
           /\ r.low = LowestLow(base_data)
           /\ r.volume = SumVolume(base_data)
           /\ r.count = BucketSize(last_call.tf)

C1_Witness ==
    /\ AggregateCalled
    /\ last_call.tf = "4h"
    /\ FullBucket(base_data, "4h", last_call.ref)
    /\ base_data[1].close # base_data[4].close
    /\ base_data[2].high > base_data[1].high
    /\ last_call.result # None

(* C2: aggregate returns no candle whenever the buffer holds no base candle *)
(* whose open_ts is the target bucket's open_ts, whatever else it holds.    *)
C2_NoFirstCandleNoAggregate ==
    (AggregateCalled /\
     \A i \in 1..Len(base_data) :
        base_data[i].open_ts # last_call.ref + 1 - Offset(last_call.tf))
        => last_call.result = None

C2_Witness ==
    /\ AggregateCalled
    /\ last_call.result = None
    /\ \E i \in 1..Len(base_data) :
          /\ base_data[i].open_ts > last_call.ref + 1 - Offset(last_call.tf)
          /\ base_data[i].open_ts < last_call.ref

(* C3: per trigger the base candle is emitted first, then the aggregates in *)
(* ascending duration of their target, whatever the order of aggregate_list.*)
C3_AscendingTargets ==
    /\ last_call.op = "timeframes_to_aggregate" =>
        \A i, j \in 1..Len(last_call.result) :
            i < j => Offset(last_call.result[i]) < Offset(last_call.result[j])
    /\ ProcessCalled =>
        \A i, j \in 1..Len(last_call.out) :
            i < j => Offset(last_call.out[i].timeframe) < Offset(last_call.out[j].timeframe)

(* C4: with a non-empty aggregate_list and active_warmup = false the runner *)
(* fails to start with a configuration error, no connection is opened and   *)
(* the user's active_warmup = false is not replaced by an enabled warmup.   *)
C4_WarmupRequiredForAggregation ==
    (active_warmup = FALSE /\ aggregate_list # <<>>) =>
        \A m \in Connectors :
            /\ pc[m] \in {"init", "config_error"}
            /\ conn[m] = 0
            /\ processor[m].warmup_active = FALSE

(* C5: when normalizing a received frame raises, the connector skips the     *)
(* frame and keeps the connection: it stays in the receive loop of the same  *)
(* connection, whose transport stays open, in run() and in stream().         *)
C5_MalformedFrameSkipped ==
    [][\A m \in Connectors :
          RecvRaise(m) => /\ pc'[m] = "recv"
                          /\ conn'[m] = conn[m]
                          /\ conn[m] \in ws_open'[m]]_vars

(* C6: every transport error or close, while sending the subscription or    *)
(* while receiving, cancels the keepalive task and leads the connector back *)
(* to connecting; it never terminates run() or stream().                    *)
C6_TransportErrorReconnects ==
    [][\A m \in Connectors :
          (SubscribeClosed(m) \/ RecvClosed(m) \/ RecvTimeout(m)) =>
              /\ pc'[m] \in {"connecting", "backoff"}
              /\ conn[m] \notin ping_tasks'[m]]_vars

(* C7: when run() or stream() is cancelled by its owner while a connection *)
(* is streaming, no keepalive task of the connector remains scheduled once *)
(* the connector has returned.                                             *)
C7_CancelStopsKeepalive ==
    [][\A m \in Connectors :
          (Cancel(m) /\ pc[m] \in {"recv", "emit"}) => ping_tasks'[m] = {}]_vars

(* C8: run() hands the candles to the fanout in exactly the order the        *)
(* processor yields them, and every emission of a frame completes before the *)
(* next frame is read.                                                       *)
C8_RunEmitsInProcessorOrder ==
    /\ []("run" \in Connectors => emitted["run"] \o pending["run"] = processed["run"])
    /\ [][("run" \in Connectors /\ cursor'["run"] # cursor["run"])
              => pending["run"] = <<>>]_vars

C8_Witness ==
    /\ "run" \in Connectors
    /\ cursor["run"] >= 2
    /\ pc["run"] = "recv"
    /\ Len(emitted["run"]) >= 3
    /\ emitted["run"][1].timeframe = "1h"
    /\ emitted["run"][2].timeframe = "2h"
    /\ emitted["run"][3].timeframe = "4h"

(* C9: per (source, symbol, timeframe) the emitted open_ts never decrease,  *)
(* and no closed candle is emitted for an open_ts already emitted as closed, *)
(* also when the exchange redelivers a closed candle after a reconnect.      *)
C9_NoDuplicateClosedCandle ==
    \A m \in Connectors :
        \A i, j \in 1..Len(emitted[m]) :
            (i < j /\ emitted[m][i].symbol = emitted[m][j].symbol
                   /\ emitted[m][i].timeframe = emitted[m][j].timeframe) =>
                /\ emitted[m][i].open_ts <= emitted[m][j].open_ts
                /\ ~(/\ emitted[m][i].open_ts = emitted[m][j].open_ts
                     /\ emitted[m][i].is_closed
                     /\ emitted[m][j].is_closed)

(* C10: for the same connection events and frames, the candles run() emits  *)
(* to the fanout are the candles stream() yields to its caller.             *)
C10_RunEqualsStream ==
    (Connectors = Modes /\ \A m \in Modes : Blocked(m)) =>
        emitted["run"] = emitted["stream"]

(* C11: calling the WebSocket normalizer twice on the same frame yields two  *)
(* equal candles: whenever the first call returned a candle, the second call *)
(* returns the same candle and does not raise.                               *)
C11_NormalizationIdempotent ==
    (Len(ws_results) >= 2 /\ ws_results[1].status = "ok")
        => ws_results[2] = ws_results[1]

(* a frame that is not kline data: a subscribe ack, a pong, a heartbeat, a   *)
(* topic without "kline", or a kline topic whose data is missing or empty    *)
NotKlineData(f) ==
    \/ f.op \in {"subscribe", "pong", "ping"}
    \/ ~TopicHasKline(f.topic)
    \/ ~f.has_data
    \/ f.data = <<>>

(* C12: for every received frame that is not kline data the normalizer        *)
(* yields None without raising, and the connector consumes the frame without *)
(* calling the processor or any sink and stays in its receive loop.          *)
C12_NonDataFrameDropped ==
    /\ [](\A i \in 1..Len(wire) :
            (wire[i].type = "frame" /\ NotKlineData(wire[i].frame))
                => BybitNormalizers_ws(wire[i].frame).status = "none")
    /\ [][\A m \in Connectors :
            (/\ cursor'[m] = cursor[m] + 1
             /\ NextEvent(m).type = "frame"
             /\ NotKlineData(NextEvent(m).frame))
                => /\ pc'[m] = "recv"
                   /\ processor'[m] = processor[m]
                   /\ processed'[m] = processed[m]
                   /\ pending'[m] = pending[m]
                   /\ emitted'[m] = emitted[m]]_vars

C12_Witness ==
    \E m \in Connectors :
        /\ Len(wire) >= 3
        /\ cursor[m] = 3
        /\ wire[1].type = "frame" /\ wire[1].frame = KlineEmptyDataFrame
        /\ wire[2].type = "frame" /\ wire[2].frame = TickerFrame
        /\ wire[3].type = "frame" /\ wire[3].frame = HeartbeatFrame
        /\ pc[m] = "recv"
        /\ processed[m] = <<>>
        /\ emitted[m] = <<>>

----------------------------------------------------------------------------
(* Helpers of the REST properties *)

OpenTs(klines) == [i \in 1..Len(klines) |-> klines[i].open_ts]

StrictlyIncreasing(seq) == \A i, j \in 1..Len(seq) : i < j => seq[i] < seq[j]

(* a date argument as the UTC midnight it names *)
UtcMidnight(date) ==
    IF date = Now THEN (utc_now \div daily_multiplier) * daily_multiplier
    ELSE Day0 + date.day * daily_multiplier

(* the period starts of [from_ts, to_ts) *)
PeriodStarts(from_ts, to_ts, d) ==
    [k \in 1..((to_ts - from_ts) \div d) |-> from_ts + (k - 1) * d]

(* candle open times of the URL's timeframe inside its inclusive window *)
WindowOpenCount(url) ==
    LET d == Offset(get_streamforge_timeframe(url.interval))
        first == FirstOpenAtOrAfter(url.start, d)
        last == LastOpenAtOrBefore(url.end, d)
    IN IF last < first THEN 0 ELSE (last - first) \div d + 1

RangeFetchDone(c) ==
    /\ rest_op[c].kind = "historical"
    /\ rest_pc[c] = "done"
    /\ UtcMidnight(rest_op[c].from_date) < UtcMidnight(rest_op[c].to_date)

(* C13: a backfill over [from, to) delivers exactly one candle for each      *)
(* period start of the range, in increasing order, and none outside it, the  *)
(* exchange returning the newest limit candles of each inclusive window.     *)
C13_BackfillCoversRange ==
    \A c \in Clients :
        (RangeFetchDone(c) /\ utc_offset = 0) =>
            OpenTs(rest_out[c]) =
                PeriodStarts(UtcMidnight(rest_op[c].from_date),
                             UtcMidnight(rest_op[c].to_date),
                             Offset(rest_op[c].timeframe))

(* C14: every request window of a range fetch, bounds inclusive, contains at *)
(* most limit candle open times of the requested timeframe.                  *)
C14_WindowWithinLimit ==
    \A c \in Clients :
        rest_op[c].kind = "historical" =>
            \A i \in 1..Len(urls[c]) : WindowOpenCount(urls[c][i]) <= urls[c][i].limit

(* C15: the candles of a range fetch have strictly increasing open_ts: the   *)
(* windows are disjoint and ascending, they are requested one after another  *)
(* in that order, and each window's rows are reversed before they are        *)
(* yielded.                                                                  *)
C15_RangeFetchChronological ==
    \A c \in Clients :
        rest_op[c].kind = "historical" =>
            /\ StrictlyIncreasing(OpenTs(rest_out[c]))
            /\ \A i \in 1..Len(urls[c]) :
                  /\ i > 1 => MsLess(urls[c][i - 1].end, urls[c][i].start)
                  /\ i > url_idx[c] => task[c][i] = NewTask
                  /\ i < url_idx[c] => task[c][i].pc = "returned"

C15_Witness ==
    \E c \in Clients :
        /\ RangeFetchDone(c)
        /\ Len(urls[c]) >= 2
        /\ \A i \in 1..Len(urls[c]) : Len(task[c][i].result) >= 2
        /\ Len(rest_out[c]) >= 4

(* C16: the rows fetch_candles returns for the warmup are in chronological   *)
(* order, oldest first, over the whole result, the exchange returning each   *)
(* response newest first.                                                    *)
C16_WarmupRowsChronological ==
    \A c \in Clients :
        (rest_op[c].kind = "warmup" /\ api[c].exchange = "bybit" /\ rest_pc[c] = "done") =>
            StrictlyIncreasing([i \in 1..Len(rest_out[c][1]) |-> rest_out[c][1][i].start.hi])

(* C17: after HTTP 429 the call goes on to request the same URL again, and   *)
(* does so after every further 429; after HTTP 403 or 418 no further request *)
(* is made for the URL and the call has raised.                              *)
C17_RateLimitRetriedBanFatal ==
    \A c \in Clients : \A i \in 1..Len(task[c]) :
        LET history == task[c][i].history
        IN \A k \in 1..Len(history) :
            /\ (history[k] = "429" /\ k = Len(history)) =>
                    /\ task[c][i].pc \in {"sleeping", "idle", "acquired"}
                    /\ task[c][i].exc = "none"
            /\ history[k] \in {"403", "418"} =>
                    /\ k = Len(history)
                    /\ task[c][i].pc = "raised"
                    /\ task[c][i].exc # "none"

C17_Witness ==
    \E c \in Clients : \E i \in 1..Len(task[c]) :
        /\ task[c][i].history = <<"429", "429", "ok">>
        /\ task[c][i].pc = "returned"
        /\ task[c][i].result # <<>>

(* C18: a transient failure of a request, HTTP 5xx or a connection error, is *)
(* retried; it does not end the call with an error.                          *)
C18_TransientFailureRetried ==
    \A c \in Clients : \A i \in 1..Len(task[c]) :
        LET history == task[c][i].history
        IN (history # <<>> /\ history[Len(history)] \in {"500", "connection_error"})
                => task[c][i].pc # "raised"

RECURSIVE RequestsStarted(_)
RequestsStarted(tasks) ==
    IF tasks = <<>> THEN 0
    ELSE Len(Head(tasks).history) + (IF Head(tasks).pc = "acquired" THEN 1 ELSE 0)
         + RequestsStarted(Tail(tasks))

(* C19: every Bybit client, whatever its market type, holds the one limiter  *)
(* instance, and every request, retries included, is made with a token of    *)
(* that limiter: the tokens it has handed out are the requests of all        *)
(* clients together, and no other limiter has handed out any.                *)
C19_SharedLimiter ==
    (\A c \in Clients : api[c].exchange = "bybit") =>
        /\ \A c \in Clients : api[c].limiter = BYBIT_API_LIMITER
        /\ \A l \in DOMAIN limiter_acquired :
              limiter_acquired[l] =
                  IF l = BYBIT_API_LIMITER /\ Clients # {}
                  THEN RequestsStarted(task["a"]) + RequestsStarted(task["b"])
                  ELSE 0

C19_Witness ==
    /\ Clients = {"a", "b"}
    /\ api["a"].market_type = "FUTURES (LINEAR)"
    /\ api["b"].market_type = "INVERSE"
    /\ task["a"] # <<>> /\ task["b"] # <<>>
    /\ task["a"][1].history = <<"429">> /\ task["a"][1].pc = "acquired"
    /\ task["b"][1].pc = "acquired"
    /\ limiter_acquired[BYBIT_API_LIMITER] = 3

(* C20: every candle AggregateTF.aggregate returns has                       *)
(* low <= min(open, close) <= max(open, close) <= high, the buffered base   *)
(* candles all having it, whatever the buffer holds and whatever the trigger. *)
C20_AggregateOhlcOrdered ==
    (AggregateCalled /\ last_call.result # None) =>
        LET r == last_call.result
        IN /\ \A i \in 1..Len(base_data) :
                /\ base_data[i].low <= base_data[i].open
                /\ base_data[i].low <= base_data[i].close
                /\ base_data[i].open <= base_data[i].high
                /\ base_data[i].close <= base_data[i].high
           /\ r.low <= r.open
           /\ r.low <= r.close
           /\ r.open <= r.high
           /\ r.close <= r.high

(* the open comes from a candle whose open lies above the high of the candle *)
(* that gives the close                                                      *)
C20_Witness ==
    /\ AggregateCalled
    /\ last_call.result # None
    /\ last_call.result.count >= 2
    /\ last_call.result.open = 5
    /\ last_call.result.close = 3
    /\ last_call.result.high = 6

(* C21: a target T is selected on a base candle iff (end_ts + 1) mod        *)
(* duration(T) = 0, and every aggregate produced on that candle has the     *)
(* candle's end_ts and open_ts = end_ts - duration(T) + 1, so it spans      *)
(* duration(T) seconds and opens on a multiple of duration(T).              *)
C21_TriggerAndAggregateAligned ==
    /\ last_call.op = "timeframes_to_aggregate" =>
        \A i \in 1..Len(target_timeframes) :
            LET tf == target_timeframes[i]
            IN (\E j \in 1..Len(last_call.result) : last_call.result[j] = tf)
                <=> (((last_call.ts + 1) % Offset(tf)) = 0)
    /\ last_call.op = "aggregate" /\ last_call.result # None =>
        LET r == last_call.result
        IN /\ r.end_ts = last_call.ref
           /\ r.open_ts = last_call.ref - Offset(last_call.tf) + 1
    /\ ProcessCalled =>
        \A i \in 1..Len(last_call.out) :
            LET c == last_call.out[i]
            IN c.timeframe # timeframe =>
                /\ ((last_call.candle.end_ts + 1) % Offset(c.timeframe)) = 0
                /\ c.end_ts = last_call.candle.end_ts
                /\ c.open_ts = c.end_ts - Offset(c.timeframe) + 1
                /\ c.end_ts - c.open_ts + 1 = Offset(c.timeframe)
                /\ (c.open_ts % Offset(c.timeframe)) = 0

C21_Witness ==
    /\ ProcessCalled
    /\ \E i, j \in 1..Len(last_call.out) :
          /\ last_call.out[i].timeframe = "2h"
          /\ last_call.out[j].timeframe = "4h"
          /\ last_call.out[j].count = 4

(* duration of a timeframe of the enum table, in seconds; a week is 7 days *)
TimeframeDuration(tf) == IF tf = "1w" THEN 7 * 86400 ELSE Offset(tf)

(* C22: every candle produced by the REST normalizer satisfies             *)
(* end_ts - open_ts + 1 = duration(timeframe), for every timeframe string  *)
(* of the enum table that the client accepts (1m..1d and 1w).              *)
C22_RestCandleSpansDuration ==
    last_call.op = "KlineNormalizer.api" =>
        LET r == last_call.result
        IN r.end_ts - r.open_ts + 1 = TimeframeDuration(last_call.timeframe)

InList(seq, x) == \E i \in 1..Len(seq) : seq[i] = x

C24_UnknownTimeframeFailsStart ==
    (\E i \in 1..Len(aggregate_list) :
        aggregate_list[i] \notin DOMAIN TIMEFRAME_CLASS_MAP) =>
        \A m \in Connectors : pc[m] \in {"init", "config_error", "raised"}

(* C25: for a DataInput of type kline, candle, ohlc or ohlcv, every kline   *)
(* frame received after init_processors is processed by the candle          *)
(* processor instance that init_processors created for that input.          *)
C25_FramesReachInitialisedProcessor ==
    data_input.type \in {"kline", "candle", "ohlc", "ohlcv"} =>
        \A i \in 1..Len(proc_calls) :
            /\ proc_calls[i].status = "ok"
            /\ proc_calls[i].processor.kind = "instance"
            /\ proc_calls[i].processor.stream_input = data_input

(* C26: a date literal YYYY-MM-DD given as from_date or to_date resolves to *)
(* that date's UTC midnight, whatever the local timezone of the host: the   *)
(* first window starts at from_date 00:00 UTC and the last one ends at      *)
(* to_date 00:00 UTC.                                                       *)
C26_DateLiteralIsUtcMidnight ==
    \A c \in Clients :
        (rest_op[c].kind = "historical" /\ rest_pc[c] # "init" /\ urls[c] # <<>>) =>
            /\ urls[c][1].start = MsOfSeconds(UtcMidnight(rest_op[c].from_date))
            /\ rest_op[c].to_date # Now =>
                urls[c][Len(urls[c])].end = MsOfSeconds(UtcMidnight(rest_op[c].to_date))

(* C27: with to_date = "now" the range ends at the current UTC second: the  *)
(* last request window ends at the current time, not at an earlier boundary.*)
C27_NowIsCurrentSecond ==
    \A c \in Clients :
        (rest_op[c].kind = "historical" /\ rest_op[c].to_date = Now
         /\ rest_pc[c] # "init" /\ urls[c] # <<>>) =>
            urls[c][Len(urls[c])].end = MsOfSeconds(utc_now)

(* C28: while streaming, when no frame is received within twice the ping    *)
(* interval on a transport that stays open, the connector treats it as a    *)
(* timeout, leaves the receive wait and reconnects.                         *)
C28_SilenceTimesOut ==
    [][\A m \in Connectors :
          RecvSilence(m) => pc'[m] \in {"connecting", "backoff"}]_vars

(* C29: for a timestamp of exactly 10, 13 or 16 decimal digits the divisor  *)
(* is 1, 1000 or 1000000 and the quotient is the instant in whole seconds,  *)
(* so the three encodings of one instant give the same second.              *)
C29_PrecisionByDigitCount ==
    (last_call.op = "get_timestamp_precision"
     /\ DigitCount(last_call.timestamp) \in {10, 13, 16}) =>
        /\ Pow10(last_call.precision)
            = (CASE DigitCount(last_call.timestamp) = 10 -> 1
                 [] DigitCount(last_call.timestamp) = 13 -> 1000
                 [] DigitCount(last_call.timestamp) = 16 -> 1000000)
        /\ last_call.result = last_call.instant

C29_Witness ==
    /\ last_call.op = "get_timestamp_precision"
    /\ DigitCount(last_call.timestamp) = 16
    /\ last_call.timestamp.lo = 999999
    /\ last_call.result = T0

(* the canonical candle's fields of a record given to the emitter *)
CanonicalFields(data) ==
    IF "kind" \in DOMAIN data THEN [f \in (DOMAIN data) \ {"kind"} |-> data[f]] ELSE data

(* C30: after set_transformer(fn), or construction with                     *)
(* transformer_function = fn, every row written through emit or emit_bulk   *)
(* is fn applied to the record; with no transformer the row is the          *)
(* canonical candle's fields.                                               *)
C30_CsvRowsAreTransformed ==
    /\ Len(csv_file.rows) = Len(csv_log)
    /\ \A i \in 1..Len(csv_log) :
          csv_file.rows[i] =
            IF csv_log[i].transformer = None
            THEN CanonicalFields(csv_log[i].data)
            ELSE ApplyTransformer(csv_log[i].transformer, CanonicalFields(csv_log[i].data))

Delivered == (Len(deliveries) + 1)..Len(deliveries')

(* C32: run() on an instance on which no emitter was registered delivers    *)
(* that instance's candles to a CSV sink at that instance's own file_path,  *)
(* whatever other instances were created, given emitters or run before.     *)
C32_UnregisteredRunWritesOwnCsv ==
    [][\A k \in Delivered :
          LET d == deliveries'[k]
          IN registered_on[d.instance] = <<>> =>
                \E j \in Delivered :
                    /\ deliveries'[j].instance = d.instance
                    /\ deliveries'[j].batch = d.batch
                    /\ emitters'[deliveries'[j].emitter].EMITTER = "csv"
                    /\ deliveries'[j].file_path = BybitBackfilling(d.instance).file_path]_vars

(* C34: a sink registered on one instance receives only the batches of     *)
(* that instance's run, each batch once: a delivery goes to a sink of the   *)
(* running instance, and no sink gets the same batch twice in one run.      *)
C34_SinkGetsOwnInstanceBatchesOnce ==
    [][\A k \in Delivered :
          LET d == deliveries'[k]
          IN /\ \/ InList(registered_on[d.instance], d.emitter)
                \/ d.emitter = DefaultEmitter[d.instance]
             /\ \A j \in Delivered :
                   (deliveries'[j].emitter = d.emitter /\ deliveries'[j].batch = d.batch)
                       => j = k]_vars

(* C33: on every connection the connector opens, the first and each        *)
(* reconnect, the subscription {"op": "subscribe", "args": [one            *)
(* "kline.<interval>.<SYMBOL>" topic per configured symbol, in order]} has  *)
(* been sent on that connection before a received frame is taken up.        *)
C33_SubscribedBeforeFrames ==
    [][\A m \in Connectors :
          (cursor'[m] = cursor[m] + 1 /\ NextEvent(m).type = "frame") =>
              \E k \in 1..Len(sent[m]) :
                  sent[m][k] = [conn |-> conn[m],
                                message |-> [op |-> "subscribe",
                                             args |-> << <<"kline", "60", "BTCUSDT">>,
                                                         <<"kline", "60", "ETHUSDT">> >>]]]_vars

(* a candle was processed on the second connection, after two subscriptions *)
C33_Witness ==
    \E m \in Connectors :
        /\ conn[m] = 2
        /\ Len(sent[m]) = 2
        /\ pc[m] = "emit"

(* C35: every aggregate candle that aggregate returns for target T has      *)
(* count = duration(T) / duration(B): a bucket with a base candle missing   *)
(* or duplicated anywhere in it yields no aggregate.                        *)
C35_AggregateCountIsBucketSize ==
    (AggregateCalled /\ last_call.result # None) =>
        last_call.result.count = BucketSize(last_call.tf)

(* C36: within one run() or stream(), at every moment at most one keepalive *)
(* task of the connector is alive: when a new connection's task is created, *)
(* the previous connection's task has been cancelled or has ended.          *)
C36_OneKeepaliveTask ==
    /\ [](\A m \in Connectors : Cardinality(ping_tasks[m]) <= 1)
    /\ [][\A m \in Connectors : conn'[m] # conn[m] => ping_tasks[m] = {}]_vars

(* after a reconnect the only keepalive task is the second connection's *)
C36_Witness ==
    \E m \in Connectors :
        /\ conn[m] = 2
        /\ ping_tasks[m] = {2}
        /\ pc[m] = "recv"

(* C37: the connector calls process_data only with frames whose topic       *)
(* contains "kline" and that the normalizer turned into a candle, so no     *)
(* call of process_data made from run() or stream() ends in                 *)
(* NotImplementedError.                                                     *)
C37_ProcessDataNeverNotImplemented ==
    \A i \in 1..Len(proc_calls) :
        LET raw_data == proc_calls[i].frame
        IN /\ \E k \in 1..Len(raw_data.topic) : raw_data.topic[k] = "kline"
           /\ raw_data.has_data /\ raw_data.data # <<>>
           /\ raw_data.op \notin {"subscribe", "pong"}
           /\ proc_calls[i].status # "NotImplementedError"

(* two kline frames went through process_data *)
C37_Witness ==
    /\ Len(proc_calls) >= 2
    /\ proc_calls[1].frame # proc_calls[2].frame
    /\ proc_calls[2].status \in {"ok", "TypeError"}

RECURSIVE Concatenation(_)
Concatenation(batches) ==
    IF batches = <<>> THEN <<>> ELSE Head(batches) \o Concatenation(Tail(batches))

(* C38: stream(batch_size) neither loses, duplicates nor reorders records:  *)
(* the yielded batches concatenated are the fetched candles, transformed;   *)
(* every batch is non-empty with at most batch_size records, every batch    *)
(* but the last has exactly batch_size; with nothing fetched nothing is     *)
(* yielded.                                                                 *)
C38_StreamBatchesPartitionFetched ==
    last_call.op = "stream" =>
        LET batches == last_call.result
            rows == [k \in 1..Len(last_call.fetched) |->
                        BybitBackfilling_transform(last_call.transformer,
                                                   last_call.fetched[k])]
        IN /\ Concatenation(batches) = rows
           /\ \A i \in 1..Len(batches) :
                  /\ Len(batches[i]) >= 1
                  /\ Len(batches[i]) <= last_call.batch_size
                  /\ i < Len(batches) => Len(batches[i]) = last_call.batch_size
           /\ last_call.fetched = <<>> => batches = <<>>

(* a full batch followed by a shorter last one, rows transformed *)
C38_Witness ==
    /\ last_call.op = "stream"
    /\ last_call.batch_size = 2
    /\ last_call.transformer # None
    /\ Len(last_call.result) = 2
    /\ Len(last_call.result[2]) = 1

(* the second a date argument resolves to: api.py lines 170-184 *)
StartOfDay(date) ==
    LET ts == IF date = Now THEN utc_now ELSE strptime_timestamp(date, utc_offset)
    IN (ts \div daily_multiplier) * daily_multiplier

C40_TimeframeRoundTrip ==
    last_call.op = "get_bybit_timeframe" =>
        /\ last_call.result = last_call.timeframe
        /\ \A other \in {"1m", "3m", "5m", "15m", "30m", "1h", "2h", "4h", "1d", "1w", "1M"} :
              other # last_call.timeframe => get_bybit_timeframe(other) # last_call.interval

====
